---- MODULE Spec2Model ----
(***************************************************************************)
(* Model of kqmdigital/whatsapp-ai-bot: the message store                   *)
(* (modules/messageHandler.js storeMessage, index.js storeMessage,          *)
(* sql/setup.sql), the inbound pipeline (index.js 'message' handler,        *)
(* handleIncomingMessage), the delivery forwarder (sendToN8nWebhook) and    *)
(* the connection supervisor (startClient, the lifecycle handlers, the      *)
(* watchdog).                                                                *)
(*                                                                           *)
(* Four state machines share the variables below; each specification       *)
(* drives one of them and leaves the variables of the others at their      *)
(* initial value:                                                            *)
(*   SpecStore  direct calls of the two storeMessage functions              *)
(*   Spec       the inbound pipeline, one process per 'message' event       *)
(*   SpecFwd    sendToN8nWebhook on payloads of every size class            *)
(*   SpecConn   the connection supervisor                                   *)
(*   SpecReconnect  the same under fairness, without auth_failure events    *)
(***************************************************************************)
EXTENDS Integers, Sequences, FiniteSets, Bags, TLC

VARIABLES
  rows,        \* table whatsapp_messages: the bag of inserted rows
  lastCall,    \* the last storeMessage call made directly (SpecStore)
  firstSeen,   \* history: message_id -> content of the first row the table accepted
  cfg,         \* process configuration read from the environment variables
  clock,       \* transport time in seconds (msg.timestamp)
  msgs,        \* transport messages handled so far, by message number
  others,      \* messages other people posted in the group (their handlers not followed)
  pc,          \* position of the handler processing each 'message' event
  loc,         \* locals of that handler (chat, results of awaits, history marks)
  fw,          \* sendToN8nWebhook: per payload, the attempt, the timer, the POSTs
  failBudget,  \* POSTs the downstream endpoint may still fail
  posts,       \* POSTs issued by triggerN8nWebhook (index.js), per message
  client,      \* index.js `let client`: 0 is null, otherwise the number of a client
  cl,          \* the transport clients still referred to, and their state
  task,        \* the callbacks that run startClient: the boot timer, the
               \* 'disconnected' handlers and their attemptReconnection chains,
               \* the watchdog callbacks, the 'auth_failure' handlers
  session,     \* whatsapp_sessions holds a record for this instance's session key
  exited,      \* process.exit was called
  stub,        \* the transport: which start is the first whose initialize succeeds
  clientContacts,    \* contacts.js `clientContacts`: key -> row of the client sheet
  employeeContacts,  \* contacts.js `employeeContacts`
  lastDataRefresh,   \* contacts.js `lastDataRefresh` (ms)
  wall,        \* Date.now() (ms)
  refresh,     \* the refreshContactData calls: position, `now`, GETs issued
  fmt,         \* formatPhoneNumber applied to an input, and to its result
  sessions,    \* table whatsapp_sessions: the set of its records
  sess,        \* the SupabaseStore calls made so far: the last one and its result
  reply,       \* triggerAIResponse: its position, the downstream answer, the sends
  memory,      \* checkMemoryUsage: the process.memoryUsage() reading of the last check
  http         \* the last HTTP request served and its response

storeVars == <<rows, lastCall, firstSeen>>
pipeVars  == <<cfg, clock, msgs, others, pc, loc, posts>>
fwVars    == <<fw, failBudget>>
connVars  == <<client, cl, task, session, exited, stub>>
contactVars == <<clientContacts, employeeContacts, lastDataRefresh, wall, refresh, fmt>>
sessVars  == <<sessions, sess>>
replyVars == <<reply>>
memVars   == <<memory>>
httpVars  == <<http>>
vars == <<rows, lastCall, firstSeen, cfg, clock, msgs, others, pc, loc, fw, failBudget, posts,
          client, cl, task, session, exited, stub,
          clientContacts, employeeContacts, lastDataRefresh, wall, refresh, fmt,
          sessions, sess, reply, memory, http>>

-----------------------------------------------------------------------------
(* Bounds of the model *)

MaxRows == 3        \* rows the table may hold in SpecStore
MaxIds == 2         \* message_ids offered to storeMessage in SpecStore
MaxMsgs == 1        \* 'message' events whose handler is followed
MaxDelivered == 2   \* messages the transport delivers: followed ones and further group posts
MaxPostFails == 1   \* POSTs the endpoint fails per run of the pipeline
MaxEvents == 2        \* 'disconnected' events, 'auth_failure' events, ticks of the
                      \* watchdog interval and failures of createWhatsAppClient, together
MaxStub == 2          \* the latest start of the transport that is the first to succeed
MaxAttempt == 3       \* reconnection attempts whose timer is followed
MaxCalls == 2         \* refreshContactData calls followed
MaxTicks == 3         \* advances of the wall clock followed
MaxPhoneLen == 10     \* longest input of formatPhoneNumber
MaxStoreCalls == 4    \* SupabaseStore calls followed
MaxAiCalls == 2       \* triggerAIResponse calls followed
MaxBackoffAttempt == 7  \* reconnection attempts whose timer is followed in SpecBackoff

-----------------------------------------------------------------------------
(* The message table: sql/setup.sql whatsapp_messages *)

\* The UNIQUE constraint dropped: every insert is accepted.
DbInsertNoUnique(table, row) ==
  [error |-> FALSE, table |-> table (+) SetToBag({row})]

\* INSERT INTO whatsapp_messages: message_id TEXT UNIQUE NOT NULL. A row whose
\* message_id is already in the table is refused with an error value and the
\* table is left as it was.
DbInsert(table, row) ==
  IF \E r \in BagToSet(table) : r.message_id = row.message_id
    THEN [error |-> TRUE, table |-> table]
    ELSE [error |-> FALSE, table |-> table (+) SetToBag({row})]

\* What one request to the backend may do: "reach" the table, come back with
\* an error value without touching it ("error"), or reject/throw ("throw").
BackendOutcomes == {"reach", "error", "throw"}

\* supabase.from('whatsapp_messages').insert(row) under a backend outcome:
\* the resulting table, the error value and whether the await threw.
SupabaseInsert(table, row, outcome) ==
  IF outcome = "reach"
    THEN LET r == DbInsert(table, row)
         IN [table |-> r.table, error |-> r.error, thrown |-> FALSE]
    ELSE [table |-> table, error |-> (outcome = "error"),
          thrown |-> (outcome = "throw")]

\* modules/messageHandler.js storeMessage: false on an error value, false on
\* an exception (caught), true otherwise; nothing is raised to the caller.
StoreMessage(table, messageData, outcome) ==
  LET r == SupabaseInsert(table, messageData, outcome)
  IN [table |-> r.table,
      ret |-> IF r.thrown THEN FALSE ELSE IF r.error THEN FALSE ELSE TRUE,
      raised |-> FALSE]

\* index.js storeMessage: null on an error value or an exception, data[0]
\* (the stored row) otherwise. ret is TRUE when a row is returned.
StoreMessageIndex(table, messageData, outcome) ==
  LET r == SupabaseInsert(table, messageData, outcome)
  IN [table |-> r.table,
      ret |-> IF r.thrown THEN FALSE ELSE IF r.error THEN FALSE ELSE TRUE,
      raised |-> FALSE]

\* history: the content of the first accepted row of each message_id, given
\* the row of a call and the table before and after it
NoteFirst(seen, row, table, table2) ==
  IF table2 # table /\ ~\E p \in seen : p[1] = row.message_id
    THEN seen \cup {<<row.message_id, row.content>>}
    ELSE seen

\* SELECT count(*) FROM whatsapp_messages WHERE message_id = id
CountOf(table, id) ==
  LET hits == {r \in BagToSet(table) : r.message_id = id}
      Sum[S \in SUBSET hits] ==
        IF S = {} THEN 0
        ELSE LET r == CHOOSE x \in S : TRUE IN CopiesIn(r, table) + Sum[S \ {r}]
  IN Sum[hits]

-----------------------------------------------------------------------------
(* Identifiers of a transport message (whatsapp-web.js msg.id)              *)
(* A message_id is kept as the three parts of the string                    *)
(* `${fromMe}_${remote}_${id}`; the bare id has the first two parts empty.  *)

WidStr(wid) == <<wid.user, wid.server>>

\* msg.id._serialized
Serialized(m) == <<IF m.fromMe THEN "true" ELSE "false", WidStr(m.remote), m.id>>

\* msg.id.id.toString()
IdOnly(m) == <<"", <<"", "">>, m.id>>

\* the transport message a stored message_id refers to
TransportId(message_id) == message_id[3]

\* reply_to null
NoReplyTo == <<"", <<"", "">>, 0>>

\* a row of whatsapp_messages that replies to nothing
Row(message_id, chat_id, content, is_from_bot, sender_role) ==
  [message_id |-> message_id, chat_id |-> chat_id, content |-> content,
   is_from_bot |-> is_from_bot, sender_role |-> sender_role,
   reply_to |-> NoReplyTo]

\* index.js storeMessage 74-86: the row it prepares for msg in chat.  Line 83
\* reads msg.quotedMsgId, a property the messages of whatsapp-web.js do not
\* have (a quoted message is reached through msg.getQuotedMessage()), so
\* reply_to is null.
MessageData(msg, chat, senderRole, isFromBot) ==
  Row(<<IF msg.fromMe THEN "true" ELSE "false", WidStr(chat), msg.id>>,
      WidStr(chat), msg.id, isFromBot,
      IF isFromBot THEN "bot" ELSE senderRole)

-----------------------------------------------------------------------------
(* SpecStore: the two storeMessage functions called directly               *)

Contents == {"a", "b"}
StoreIds == {IdOnly([id |-> i]) : i \in 1..MaxIds}
NoCall == [made |-> FALSE, message_id |-> IdOnly([id |-> 0]), content |-> "a",
           outcome |-> "reach", existed |-> FALSE, ret |-> FALSE, raised |-> FALSE]

\* messageHandler.storeMessage(supabase, messageData, log), as routes.js and
\* handleIncomingMessage call it
CallStoreMessage(id, content, outcome) ==
  /\ BagCardinality(rows) < MaxRows
  /\ LET row == Row(id, <<"u1", "c.us">>, content, FALSE, "unknown")
         r == StoreMessage(rows, row, outcome)
     IN /\ rows' = r.table
        /\ firstSeen' = NoteFirst(firstSeen, row, rows, r.table)
        /\ lastCall' = [made |-> TRUE, message_id |-> id, content |-> content,
                        outcome |-> outcome, existed |-> (CountOf(rows, id) > 0),
                        ret |-> r.ret, raised |-> r.raised]
  /\ UNCHANGED <<pipeVars, fwVars, connVars, contactVars, sessVars, replyVars, memVars, httpVars>>

\* index.js storeMessage(msg, chat, senderRole, senderData, isFromBot)
CallStoreMessageIndex(id, content, outcome) ==
  /\ BagCardinality(rows) < MaxRows
  /\ LET row == Row(id, <<"u1", "c.us">>, content, FALSE, "unknown")
         r == StoreMessageIndex(rows, row, outcome)
     IN /\ rows' = r.table
        /\ firstSeen' = NoteFirst(firstSeen, row, rows, r.table)
        /\ lastCall' = [made |-> TRUE, message_id |-> id, content |-> content,
                        outcome |-> outcome, existed |-> (CountOf(rows, id) > 0),
                        ret |-> r.ret, raised |-> r.raised]
  /\ UNCHANGED <<pipeVars, fwVars, connVars, contactVars, sessVars, replyVars, memVars, httpVars>>

-----------------------------------------------------------------------------
(* The delivery forwarder: modules/messageHandler.js sendToN8nWebhook       *)

TextCap == 1000           \* payload.text is cut to this many characters
ReplyCap == 500           \* payload.replyInfo.text is cut to this many
MarkerLen == 15           \* '... [truncated]'.length
MaxPayloadBytes == 90000  \* 90_000
LastRetryAttempt == 4     \* attempt < 4 schedules a retry
BackoffCapMs == 15000     \* Math.min(..., 15000)

Min(a, b) == IF a < b THEN a ELSE b

\* A text is n characters of the original followed by m characters of ASCII
\* marker; each original character takes bpc bytes in UTF-8.
TextLen(t) == t.n + t.m

\* t.slice(0, k)
Slice(t, k) == [n |-> Min(t.n, k), m |-> Min(t.m, k - Min(t.n, k))]

\* a truncation that appends the marker to the marker already there
TruncateAppends(t, cap) ==
  IF TextLen(t) > cap
    THEN [n |-> Min(t.n, cap), m |-> t.m + MarkerLen]
    ELSE t

\* if (t.length > cap) t = t.slice(0, cap) + '... [truncated]'
Truncate(t, cap) ==
  IF TextLen(t) > cap
    THEN LET s == Slice(t, cap) IN [n |-> s.n, m |-> s.m + MarkerLen]
    ELSE t

\* Buffer.byteLength(JSON.stringify(payload), 'utf8'): the bytes of the two
\* texts plus `other`, the bytes of the rest of the envelope
ByteLength(p) ==
  p.other + p.text.n * p.bpc + p.text.m + p.rtext.n * p.bpc + p.rtext.m

\* Math.min(Math.pow(2, attempt) * 1000, 15000)
Backoff(attempt) == Min((2 ^ attempt) * 1000, BackoffCapMs)

\* the size guard comparing with >= : a payload of exactly 90,000 bytes is dropped
TooLargeOffByOne(size) == size >= MaxPayloadBytes

\* if (payloadSize > 90_000) return
TooLarge(size) == size > MaxPayloadBytes

\* retrying without a cap on the attempts
MayRetryAlways(attempt) == TRUE

\* if (attempt < 4)
MayRetry(attempt) == attempt < LastRetryAttempt

NoText == [n |-> 0, m |-> 0]
IdleJob(text, rtext, bpc, other) ==
  [st |-> "idle", attempt |-> 0, posts |-> 0, delays |-> <<>>,
   text |-> text, rtext |-> rtext, bpc |-> bpc, other |-> other,
   posted |-> {}, size0 |-> 0]

\* sendToN8nWebhook(payload, attempt, log) up to its await: the URL check,
\* the truncation (which mutates the payload), the size guard, and the POST
\* being issued. f is the job with f.attempt already set.
SendBegin(f, urlSet) ==
  IF ~urlSet THEN [f EXCEPT !.st = "nourl"]
  ELSE LET t == Truncate(f.text, TextCap)
           r == Truncate(f.rtext, ReplyCap)
           g == [f EXCEPT !.text = t, !.rtext = r]
           size == ByteLength(g)
           h == IF f.attempt = 0 THEN [g EXCEPT !.size0 = size] ELSE g
       IN IF TooLarge(size)
            THEN [h EXCEPT !.st = "toolarge"]
            ELSE [h EXCEPT !.st = "posting", !.posts = @ + 1,
                           !.posted = @ \cup {<<t, r, size>>}]

\* the catch branch of sendToN8nWebhook after a failed POST
SendFailed(f) ==
  IF MayRetry(f.attempt)
    THEN [f EXCEPT !.st = "timer", !.delays = Append(@, Backoff(f.attempt))]
    ELSE [f EXCEPT !.st = "gaveup"]

\* await axios.post(...) settles: resolved (ok) or rejected. The handler that
\* awaits sendToN8nWebhook(payload, 0) resumes and returns.
FwPostReturn(j, ok) ==
  /\ fw[j].st = "posting"
  /\ ok \/ failBudget > 0
  /\ failBudget' = IF ok THEN failBudget ELSE failBudget - 1
  /\ fw' = [fw EXCEPT ![j] = IF ok THEN [@ EXCEPT !.st = "sent"] ELSE SendFailed(@)]
  /\ pc' = [pc EXCEPT ![j] = IF @ = "m_forward" THEN "done" ELSE @]
  /\ UNCHANGED <<storeVars, cfg, clock, msgs, others, loc, posts, connVars, contactVars, sessVars, replyVars, memVars, httpVars>>

\* sendToN8nWebhook(payload, 0, log) called on a payload
FwCall(j) ==
  /\ fw[j].st = "idle"
  /\ fw' = [fw EXCEPT ![j] = SendBegin(@, cfg.urlSet)]
  /\ UNCHANGED <<storeVars, pipeVars, failBudget, connVars, contactVars, sessVars, replyVars, memVars, httpVars>>

\* setTimeout(() => sendToN8nWebhook(payload, attempt + 1, log), backoff) fires
FwTimerFire(j) ==
  /\ fw[j].st = "timer"
  /\ fw' = [fw EXCEPT ![j] = SendBegin([@ EXCEPT !.attempt = @ + 1], cfg.urlSet)]
  /\ UNCHANGED <<storeVars, pipeVars, failBudget, connVars, contactVars, sessVars, replyVars, memVars, httpVars>>

-----------------------------------------------------------------------------
(* The inbound pipeline: index.js 'message' handler, handleIncomingMessage  *)

Users == {"u1", "u2"}
GroupWid == [user |-> "g1", server |-> "g.us"]
UserWid(u) == [user |-> u, server |-> "c.us"]
NoWid == [user |-> "", server |-> ""]
DefaultGroupDelay == 10000   \* GROUP_RESPONSE_DELAY, '10000' when unset
FetchLimit == 10             \* chat.fetchMessages({limit: 10})

NoMsg == [id |-> 0, remote |-> NoWid, from |-> NoWid, author |-> NoWid,
          fromMe |-> FALSE, timestamp |-> 0, seq |-> 0]

\* A message received in a chat, as whatsapp-web.js presents it: in a group
\* `from` is the group and `author` the participant; in a direct chat `from`
\* is the sender and `author` is undefined.
Received(i, inGroup, sender, now, seq) ==
  [id |-> i,
   remote |-> IF inGroup THEN GroupWid ELSE UserWid(sender),
   from |-> IF inGroup THEN GroupWid ELSE UserWid(sender),
   author |-> IF inGroup THEN UserWid(sender) ELSE NoWid,
   fromMe |-> FALSE, timestamp |-> now, seq |-> seq]

\* the account the bot is logged in as
BotWid == UserWid("bot")

\* A message the bot's account sent to a chat (msg.fromMe), the group or the
\* direct chat with u1: `from` is the account itself and the chat is the
\* remote of the message id.
Sent(i, inGroup, now, seq) ==
  [id |-> i,
   remote |-> IF inGroup THEN GroupWid ELSE UserWid("u1"),
   from |-> BotWid,
   author |-> IF inGroup THEN BotWid ELSE NoWid,
   fromMe |-> TRUE, timestamp |-> now, seq |-> seq]

-----------------------------------------------------------------------------
(* contacts.js: the contact cache, formatPhoneNumber, getSenderRole         *)
(* A string is the sequence of its characters; an id `${p}@c.us` is the     *)
(* wid [user |-> p, server |-> "c.us"] and the bare p has server "".        *)

Digits == {"0", "1", "2", "3", "4", "5", "6", "7", "8", "9"}
IsDigit(c) == c \in Digits

\* a formatPhoneNumber that prefixes every 10-digit number
FormatPhoneNumberAnyTen(phone) ==
  LET cleaned == SelectSeq(phone, IsDigit)
  IN IF Len(cleaned) = 8 THEN <<"6", "5">> \o cleaned
     ELSE IF Len(cleaned) = 10 THEN <<"6", "5">> \o SubSeq(cleaned, 2, 10)
     ELSE cleaned

\* formatPhoneNumber(phone), contacts.js 60-73
FormatPhoneNumber(phone) ==
  LET cleaned == SelectSeq(phone, IsDigit)
  IN IF Len(cleaned) = 8 THEN <<"6", "5">> \o cleaned
     ELSE IF Len(cleaned) = 10 /\ cleaned[1] = "0"
       THEN <<"6", "5">> \o SubSeq(cleaned, 2, Len(cleaned))
     ELSE cleaned

DataRefreshInterval == 30 * 60 * 1000   \* DATA_REFRESH_INTERVAL

BareId(p) == [user |-> p, server |-> ""]

EmptyMap == [k \in {} |-> 0]

\* Map.prototype.set
MapSet(m, k, v) == [x \in DOMAIN m \cup {k} |-> IF x = k THEN v ELSE m[x]]

\* a cache entry under the bare number only
SetBareKey(m, phoneNumber, row) == MapSet(m, BareId(phoneNumber), row)

\* contacts.js 28-29 (45-46): the row under both of its keys
SetBothKeys(m, phoneNumber, row) ==
  MapSet(MapSet(m, BareId(phoneNumber), row), UserWid(phoneNumber), row)

\* contacts.js 23-31 (40-48): clear(), then forEach over the rows of the sheet
RECURSIVE LoadFrom(_, _)
LoadFrom(m, list) ==
  IF list = <<>> THEN m
  ELSE LET row == Head(list)
           m2 == IF row.phone # <<>>
                   THEN SetBothKeys(m, FormatPhoneNumber(row.phone), row)
                   ELSE m
       IN LoadFrom(m2, Tail(list))

Load(list) == LoadFrom(EmptyMap, list)

\* a getSenderRole that looks into the employee map first
GetSenderRoleEmployeeFirst(senderId) ==
  LET normalizedId == IF senderId.server = "c.us" THEN senderId
                      ELSE UserWid(senderId.user)
      cleanPhone == BareId(senderId.user)
      Get(m) == IF normalizedId \in DOMAIN m THEN m[normalizedId] ELSE m[cleanPhone]
  IN IF normalizedId \in DOMAIN employeeContacts
          \/ cleanPhone \in DOMAIN employeeContacts
       THEN [role |-> "employee", data |-> Get(employeeContacts)]
     ELSE IF normalizedId \in DOMAIN clientContacts \/ cleanPhone \in DOMAIN clientContacts
       THEN [role |-> "client", data |-> Get(clientContacts)]
     ELSE [role |-> "unknown", data |-> <<>>]

\* getSenderRole(senderId), contacts.js 76-95
GetSenderRole(senderId) ==
  LET normalizedId == IF senderId.server = "c.us" THEN senderId
                      ELSE UserWid(senderId.user)
      cleanPhone == BareId(senderId.user)
      Get(m) == IF normalizedId \in DOMAIN m THEN m[normalizedId] ELSE m[cleanPhone]
  IN IF normalizedId \in DOMAIN clientContacts \/ cleanPhone \in DOMAIN clientContacts
       THEN [role |-> "client", data |-> Get(clientContacts)]
     ELSE IF normalizedId \in DOMAIN employeeContacts
               \/ cleanPhone \in DOMAIN employeeContacts
       THEN [role |-> "employee", data |-> Get(employeeContacts)]
     ELSE [role |-> "unknown", data |-> <<>>]

\* the rows the sheets hold: numbers written with or without the country
\* code, with separators, or left empty
Phone8 == <<"9", "1", "2", "3", "4", "5", "6", "7">>
Phone8Spaced == <<"9", "1", "2", "3", " ", "4", "5", "6", "7">>
Phone10 == <<"6", "5">> \o Phone8
PhoneLocal == <<"0", "8", "1", "2", "3", "4", "5", "6", "7", "8">>
Ann == [name |-> "Ann", phone |-> Phone8]
Bob == [name |-> "Bob", phone |-> Phone10]
Cid == [name |-> "Cid", phone |-> PhoneLocal]
Dee == [name |-> "Dee", phone |-> <<>>]
Eve == [name |-> "Eve", phone |-> Phone8Spaced]

\* what axios.get(N8N_CLIENT_DATA_URL) / axios.get(N8N_EMPLOYEE_DATA_URL)
\* answers: a rejection, a body without the array, or the array
Responses ==
  {[thrown |-> TRUE, isArray |-> FALSE, list |-> <<>>],
   [thrown |-> FALSE, isArray |-> FALSE, list |-> <<>>],
   [thrown |-> FALSE, isArray |-> TRUE, list |-> <<Ann, Dee>>],
   [thrown |-> FALSE, isArray |-> TRUE, list |-> <<Eve, Bob, Cid>>]}

IdleRefresh == [pc |-> "idle", now |-> 0, gets |-> {}, threw |-> ""]

\* a refreshContactData that fetches at every call
RefreshDueAlways(now, last) == TRUE

\* contacts.js 12: the call goes on unless now - lastDataRefresh < DATA_REFRESH_INTERVAL
RefreshDue(now, last) == ~(now - last < DataRefreshInterval)

\* refreshContactData(log) is called (by handleIncomingMessage, by the
\* 30-minute interval of index.js 555): lines 11-20, up to the return of
\* line 13 or to the first axios.get
RefreshCall(k) ==
  /\ refresh[k].pc = "idle"
  /\ \A j \in 1..(k - 1) : refresh[j].pc # "idle"
  /\ refresh' = [refresh EXCEPT ![k] =
        IF RefreshDue(wall, lastDataRefresh)
          THEN [pc |-> "clients", now |-> wall, gets |-> {"clients"}, threw |-> ""]
          ELSE [pc |-> "done", now |-> wall, gets |-> {}, threw |-> ""]]
  /\ UNCHANGED <<clientContacts, employeeContacts, lastDataRefresh, wall, fmt,
                 storeVars, pipeVars, fwVars, connVars, sessVars, replyVars, memVars, httpVars>>

\* the client sheet loaded without clear(): the rows are merged into the map
ClientsReturnMerges(k, resp) ==
  /\ refresh[k].pc = "clients"
  /\ IF resp.thrown
       THEN /\ refresh' = [refresh EXCEPT ![k].pc = "done", ![k].threw = "clients"]
            /\ clientContacts' = clientContacts
       ELSE /\ refresh' = [refresh EXCEPT ![k].pc = "employees",
                                          ![k].gets = @ \cup {"employees"}]
            /\ clientContacts' = IF resp.isArray THEN LoadFrom(clientContacts, resp.list)
                                                 ELSE clientContacts
  /\ UNCHANGED <<employeeContacts, lastDataRefresh, wall, fmt,
                 storeVars, pipeVars, fwVars, connVars, sessVars, replyVars, memVars, httpVars>>

\* the GET of the client sheet settles (20-37): a rejection goes to the catch
\* of line 54; otherwise the map is replaced when the body holds the array,
\* and the GET of the employee sheet is issued
ClientsReturn(k, resp) ==
  /\ refresh[k].pc = "clients"
  /\ IF resp.thrown
       THEN /\ refresh' = [refresh EXCEPT ![k].pc = "done", ![k].threw = "clients"]
            /\ clientContacts' = clientContacts
       ELSE /\ refresh' = [refresh EXCEPT ![k].pc = "employees",
                                          ![k].gets = @ \cup {"employees"}]
            /\ clientContacts' = IF resp.isArray THEN Load(resp.list)
                                                 ELSE clientContacts
  /\ UNCHANGED <<employeeContacts, lastDataRefresh, wall, fmt,
                 storeVars, pipeVars, fwVars, connVars, sessVars, replyVars, memVars, httpVars>>

\* the GET of the employee sheet settles (37-56): a rejection goes to the
\* catch; otherwise the map is replaced when the body holds the array and
\* lastDataRefresh becomes the `now` of the call
EmployeesReturn(k, resp) ==
  /\ refresh[k].pc = "employees"
  /\ IF resp.thrown
       THEN /\ refresh' = [refresh EXCEPT ![k].pc = "done", ![k].threw = "employees"]
            /\ UNCHANGED <<employeeContacts, lastDataRefresh>>
       ELSE /\ refresh' = [refresh EXCEPT ![k].pc = "done"]
            /\ employeeContacts' = IF resp.isArray THEN Load(resp.list)
                                                   ELSE employeeContacts
            /\ lastDataRefresh' = refresh[k].now
  /\ UNCHANGED <<clientContacts, wall, fmt, storeVars, pipeVars, fwVars, connVars, sessVars, replyVars, memVars, httpVars>>

\* the process started at StartTime; the advances of the clock so far
StartTime == 1000 * DataRefreshInterval
TicksOf(t) ==
  ((t - StartTime) \div (DataRefreshInterval - 1))
    + ((t - StartTime) % (DataRefreshInterval - 1))

\* time passes: d ms
Advance(d) ==
  /\ TicksOf(wall) < MaxTicks
  /\ wall' = wall + d
  /\ UNCHANGED <<clientContacts, employeeContacts, lastDataRefresh, refresh, fmt,
                 storeVars, pipeVars, fwVars, connVars, sessVars, replyVars, memVars, httpVars>>

\* formatPhoneNumber is applied to the input, then to its own result
NoFmt == [x |-> <<>>, once |-> <<>>, twice |-> <<>>, n |-> 0]

Format ==
  /\ fmt.n < 2
  /\ fmt' = IF fmt.n = 0
              THEN [fmt EXCEPT !.once = FormatPhoneNumber(fmt.x), !.n = 1]
              ELSE [fmt EXCEPT !.twice = FormatPhoneNumber(fmt.once), !.n = 2]
  /\ UNCHANGED <<clientContacts, employeeContacts, lastDataRefresh, wall, refresh,
                 storeVars, pipeVars, fwVars, connVars, sessVars, replyVars, memVars, httpVars>>

ContactsIdle ==
  /\ clientContacts = EmptyMap
  /\ employeeContacts = EmptyMap
  /\ lastDataRefresh = 0
  /\ wall = StartTime
  /\ refresh = [k \in 1..MaxCalls |-> IdleRefresh]
  /\ fmt = NoFmt

-----------------------------------------------------------------------------
(* storage.js: SupabaseStore over table whatsapp_sessions (setup.sql 2-7).   *)
(* A record is [session_key, session_data]; the values a call returns are    *)
(* written as strings: "true", "false", a blob, "null", "undefined".         *)

\* a || b of JavaScript on strings ("" is falsy)
JsOr(a, b) == IF a # "" THEN a ELSE b

SessionId == "default_session"    \* index.js 17: SESSION_ID
RemoteAuthName == "RemoteAuth"    \* the `session` RemoteAuth passes to sessionExists
OtherKey == "other_session"       \* the key of another instance
Blobs == {"b1", "b2"}             \* session data, opaque
Null == "null"

\* what the backend does with a query: it runs it, it answers with an error
\* value, or the call throws
StoreOutcomes == {"ok", "error", "throw"}

\* .eq('session_key', key)
SelectByKey(t, key) == {r \in t : r.session_key = key}

\* .limit(1).single(): the row when there is exactly one, an error otherwise
Single(found) ==
  IF Cardinality(found) = 1
    THEN [error |-> FALSE, session_data |-> (CHOOSE r \in found : TRUE).session_data]
    ELSE [error |-> TRUE, session_data |-> ""]

\* an insert that keeps the record already there
InsertRow(t, row) == t \cup {row}

\* .upsert(row, { onConflict: 'session_key' }) on a table whose session_key is
\* the PRIMARY KEY: the record of that key is replaced
Upsert(t, row) == {r \in t : r.session_key # row.session_key} \cup {row}

\* .delete().eq('session_key', key)
DeleteByKey(t, key) == {r \in t : r.session_key # key}

\* sessionExists({ session }), storage.js 9-25
StoreSessionExists(t, key, outcome) ==
  [table |-> t, raised |-> FALSE,
   ret |-> IF outcome = "ok" /\ Cardinality(SelectByKey(t, key)) > 0
             THEN "true" ELSE "false"]

\* extract(), storage.js 27-37: no try around the awaited query
StoreExtract(t, outcome) ==
  IF outcome = "throw" THEN [table |-> t, raised |-> TRUE, ret |-> "undefined"]
  ELSE LET r == IF outcome = "error" THEN [error |-> TRUE, session_data |-> ""]
                ELSE Single(SelectByKey(t, SessionId))
       IN [table |-> t, raised |-> FALSE,
           ret |-> IF r.error THEN Null ELSE JsOr(r.session_data, Null)]

\* save(sessionData), storage.js 39-49
StoreSave(t, sessionData, outcome) ==
  [table |-> IF outcome = "ok"
               THEN Upsert(t, [session_key |-> SessionId, session_data |-> sessionData])
               ELSE t,
   raised |-> outcome = "throw", ret |-> "undefined"]

\* delete(), storage.js 51-58
StoreDelete(t, outcome) ==
  [table |-> IF outcome = "ok" THEN DeleteByKey(t, SessionId) ELSE t,
   raised |-> outcome = "throw", ret |-> "undefined"]

\* no call made yet; `hist` lists the saves (their blob) and the deletes
\* ("delete") the backend ran, in the order of the calls
NoSess == [op |-> "", arg |-> "", outcome |-> "", ret |-> "", raised |-> FALSE,
           n |-> 0, hist |-> <<>>]

\* one call of the adapter, from its start to the settling of its promise
StoreCall(op, arg, outcome, r) ==
  /\ sess.n < MaxStoreCalls
  /\ sessions' = r.table
  /\ sess' = [op |-> op, arg |-> arg, outcome |-> outcome, ret |-> r.ret,
              raised |-> r.raised, n |-> sess.n + 1,
              hist |-> IF outcome # "ok" THEN sess.hist
                       ELSE IF op = "save" THEN Append(sess.hist, arg)
                       ELSE IF op = "delete" THEN Append(sess.hist, "delete")
                       ELSE sess.hist]
  /\ session' = (SelectByKey(r.table, SessionId) # {})
  /\ UNCHANGED <<client, cl, task, exited, stub, storeVars, pipeVars, fwVars, contactVars,
                 replyVars, memVars, httpVars>>

CallSessionExists(key, outcome) ==
  StoreCall("sessionExists", key, outcome, StoreSessionExists(sessions, key, outcome))

CallExtract(outcome) == StoreCall("extract", "", outcome, StoreExtract(sessions, outcome))

CallSave(sessionData, outcome) ==
  StoreCall("save", sessionData, outcome, StoreSave(sessions, sessionData, outcome))

CallDelete(outcome) == StoreCall("delete", "", outcome, StoreDelete(sessions, outcome))

SessIdle ==
  /\ sessions = {}
  /\ sess = NoSess

-----------------------------------------------------------------------------
(* triggerAIResponse: the downstream answer sent back to the chat.  The      *)
(* repository holds it twice: with the unquoted second send                  *)
(* (unnamed/part_001 300-397) and without it (unnamed/part_001 1053-1127).   *)

ReplyBuilds == {"fallback", "single"}

\* `n` counts the calls; the other fields are those of the call under way
NoReply == [pc |-> "idle", n |-> 0, build |-> "", isGroup |-> FALSE, name |-> "",
            history |-> "", response |-> "", attempts |-> <<>>, sent |-> <<>>,
            caught |-> FALSE]

\* what the POST to N8N_AI_WEBHOOK_URL answers: a rejection, a body without
\* `response`, an empty `response`, or a text
AiAnswers ==
  {[thrown |-> TRUE, response |-> ""],
   [thrown |-> FALSE, response |-> ""],
   [thrown |-> FALSE, response |-> "hello"]}

\* responseText (372-374): the sender is mentioned in a group when the
\* contact record has a name
ResponseText(isGroup, name, response) ==
  [mention |-> IF isGroup /\ name # "" THEN name ELSE "", body |-> response]

\* triggerAIResponse(msg, client, supabase, log) is called (300-313): it
\* returns at once without N8N_AI_WEBHOOK_URL, otherwise awaits msg.getChat()
AiCall(build, urlSet) ==
  /\ reply.pc \in {"idle", "done"}
  /\ reply.n < MaxAiCalls
  /\ reply' = [NoReply EXCEPT !.build = build, !.n = reply.n + 1,
                              !.pc = IF urlSet THEN "getChat" ELSE "done"]
  /\ UNCHANGED <<storeVars, pipeVars, fwVars, connVars, contactVars, sessVars, memVars, httpVars>>

\* msg.getChat() settles (313-326): getSenderRole, then the history query
AiGetChatReturn(ok, isGroup, name) ==
  /\ reply.pc = "getChat"
  /\ reply' = IF ok THEN [reply EXCEPT !.pc = "history", !.isGroup = isGroup,
                                       !.name = name]
              ELSE [reply EXCEPT !.pc = "done", !.caught = TRUE]
  /\ UNCHANGED <<storeVars, pipeVars, fwVars, connVars, contactVars, sessVars, memVars, httpVars>>

\* the history query settles (321-363): an error value is logged and the
\* history is empty; an exception goes to the catch; otherwise the POST
AiHistoryReturn(outcome) ==
  /\ reply.pc = "history"
  /\ reply' = IF outcome = "throw" THEN [reply EXCEPT !.pc = "done", !.caught = TRUE]
              ELSE [reply EXCEPT !.pc = "post",
                      !.history = IF outcome = "ok" THEN "Ann (client): hi" ELSE ""]
  /\ UNCHANGED <<storeVars, pipeVars, fwVars, connVars, contactVars, sessVars, memVars, httpVars>>

\* the POST settles (360-386): with a truthy response.data.response the
\* quoted send is issued, otherwise a warning is logged
AiPostReturn(answer) ==
  /\ reply.pc = "post"
  /\ reply' =
       IF answer.thrown THEN [reply EXCEPT !.pc = "done", !.caught = TRUE]
       ELSE IF answer.response # ""
         THEN [reply EXCEPT !.pc = "quoted", !.response = answer.response,
                            !.attempts = Append(@, "quoted")]
       ELSE [reply EXCEPT !.pc = "done"]
  /\ UNCHANGED <<storeVars, pipeVars, fwVars, connVars, contactVars, sessVars, memVars, httpVars>>

\* the quoted send failed: 379-381 send again without the quote; in the
\* other copy (1120) the exception goes to the outer catch
AfterQuoteFailed(r) ==
  IF r.build = "fallback"
    THEN [r EXCEPT !.pc = "plain", !.attempts = Append(@, "plain")]
    ELSE [r EXCEPT !.pc = "done", !.caught = TRUE]

\* chat.sendMessage(responseText, { quotedMessageId }) settles (377-382)
AiQuotedSendReturn(ok) ==
  /\ reply.pc = "quoted"
  /\ reply' =
       IF ok THEN [reply EXCEPT !.pc = "done",
                     !.sent = Append(@, [quoted |-> TRUE,
                        text |-> ResponseText(reply.isGroup, reply.name, reply.response)])]
       ELSE AfterQuoteFailed(reply)
  /\ UNCHANGED <<storeVars, pipeVars, fwVars, connVars, contactVars, sessVars, memVars, httpVars>>

\* chat.sendMessage(responseText) settles (381): a rejection goes to the
\* outer catch (387)
AiPlainSendReturn(ok) ==
  /\ reply.pc = "plain"
  /\ reply' =
       IF ok THEN [reply EXCEPT !.pc = "done",
                     !.sent = Append(@, [quoted |-> FALSE,
                        text |-> ResponseText(reply.isGroup, reply.name, reply.response)])]
       ELSE [reply EXCEPT !.pc = "done", !.caught = TRUE]
  /\ UNCHANGED <<storeVars, pipeVars, fwVars, connVars, contactVars, sessVars, memVars, httpVars>>

ReplyIdle == reply = NoReply

-----------------------------------------------------------------------------

NoLoc == [isGroup |-> FALSE, issued |-> 0, inserts |-> 0, humanReplied |-> FALSE,
          suppressed |-> FALSE,
          senderName |-> "", chatName |-> "", replyTo |-> "", threw |-> {},
          stored |-> FALSE]

\* msg.from.endsWith('@g.us')
EndsWithGUs(wid) == wid.server = "g.us"

\* msg.author || msg.from
SenderId(m) == IF m.author # NoWid THEN m.author ELSE m.from

\* every message the transport has delivered, in arrival order by seq
Delivered == {msgs[j] : j \in {k \in 1..MaxMsgs : pc[k] # "idle"}} \cup others

\* the messages of the chat of message m
ChatMessages(m) == {x \in Delivered : x.remote = m.remote}

\* chat.fetchMessages({limit: 10}): the latest FetchLimit messages of the chat
FetchMessages(m) ==
  {x \in ChatMessages(m) :
     Cardinality({y \in ChatMessages(m) : y.seq > x.seq}) < FetchLimit}

\* index.js 313-317: newMessages.some(newMsg => newMsg.timestamp > msg.timestamp
\*   && !newMsg.fromMe && newMsg.from !== msg.from)
HasHumanResponse(msg, newMessages) ==
  \E newMsg \in newMessages :
     /\ newMsg.timestamp > msg.timestamp
     /\ ~newMsg.fromMe
     /\ newMsg.from # msg.from

\* handleIncomingMessage lines 75-88, up to its first await: a direct message
\* with ENABLE_DM_RESPONSES off returns before anything is stored.
HimEntry(m) ==
  IF ~EndsWithGUs(m.from) /\ ~cfg.enableDm THEN "done" ELSE "m_enrich"

\* index.js 300-326 after triggerN8nWebhook: the DM switch, then the group delay
AfterTrigger(i) ==
  IF ~loc[i].isGroup /\ ~cfg.enableDm THEN "done"
  ELSE IF loc[i].isGroup /\ cfg.delay > 0 THEN "h_delay"
  ELSE HimEntry(msgs[i])

\* history: message k is waiting out its group delay and m is a later message
\* of another human in the same group
RepliesTo(m, k) ==
  /\ pc[k] = "h_delay"
  /\ m.remote = msgs[k].remote
  /\ ~m.fromMe
  /\ m.author # msgs[k].author
  /\ m.timestamp > msgs[k].timestamp

\* the transport emits 'message' for a received message. index.js 274-282 (the
\* pipeline build) skips fromMe and awaits msg.getChat(); index.js 750 (the
\* direct build) hands the message to handleIncomingMessage.
\* dt is the whole seconds passed on the transport clock since the previous
\* message (msg.timestamp counts seconds).
MessageEvent(i, inGroup, sender, dt) ==
  /\ pc[i] = "idle"
  /\ Cardinality(Delivered) < MaxDelivered
  /\ \A j \in 1..(i - 1) : pc[j] # "idle"
  /\ Delivered = {} => (sender = "u1" /\ dt = 0)
  /\ clock' = clock + dt
  /\ LET m == Received(i, inGroup, sender, clock + dt, Cardinality(Delivered) + 1)
     IN /\ msgs' = [msgs EXCEPT ![i] = m]
        /\ pc' = [pc EXCEPT ![i] =
                    IF cfg.build = "direct" THEN HimEntry(m)
                    ELSE IF m.fromMe THEN "done" ELSE "h_getChat"]
        /\ loc' = [k \in 1..MaxMsgs |->
                    IF k # i /\ RepliesTo(m, k)
                      THEN [loc[k] EXCEPT !.humanReplied = TRUE] ELSE loc[k]]
  /\ UNCHANGED <<storeVars, cfg, others, posts, fwVars, connVars, contactVars, sessVars, replyVars, memVars, httpVars>>

\* the transport emits 'message_create' for a message the bot's account has
\* sent ('message' is emitted for received messages only). index.js 333-336
\* awaits msg.getChat() for it; the build of index.js 679-751 registers no
\* 'message_create' handler, so nothing runs there. The message carries the
\* current second of the transport clock.
MessageCreateEvent(i, inGroup) ==
  /\ pc[i] = "idle"
  /\ Cardinality(Delivered) < MaxDelivered
  /\ \A j \in 1..(i - 1) : pc[j] # "idle"
  /\ LET m == Sent(i, inGroup, clock, Cardinality(Delivered) + 1)
     IN /\ msgs' = [msgs EXCEPT ![i] = m]
        /\ pc' = [pc EXCEPT ![i] =
                    IF cfg.build = "pipeline" /\ m.fromMe THEN "c_getChat" ELSE "done"]
  /\ UNCHANGED <<storeVars, cfg, clock, others, loc, posts, fwVars, connVars, contactVars, sessVars, replyVars, memVars, httpVars>>

\* await msg.getChat() of the 'message_create' handler settles; on success
\* storeMessage(msg, chat, 'bot', null, true) runs up to its insert (the
\* contact lookup is skipped for a bot message, index.js 59-68); a rejection
\* is caught at line 342
CGetChat(i, ok) ==
  /\ pc[i] = "c_getChat"
  /\ IF ok
       THEN /\ pc' = [pc EXCEPT ![i] = "c_insert"]
            /\ loc' = [loc EXCEPT ![i].isGroup = EndsWithGUs(msgs[i].remote),
                                  ![i].issued = @ + 1]
       ELSE /\ pc' = [pc EXCEPT ![i] = "done"]
            /\ loc' = loc
  /\ UNCHANGED <<storeVars, cfg, clock, msgs, others, posts, fwVars, connVars, contactVars, sessVars, replyVars, memVars, httpVars>>

\* storeMessage(msg, chat, 'bot') with the isFromBot argument left out
BotMessageDataUnflagged(msg) == MessageData(msg, msg.remote, "bot", FALSE)

\* index.js 339: the row of storeMessage(msg, chat, 'bot', null, true)
BotMessageData(msg) == MessageData(msg, msg.remote, "bot", TRUE)

\* the insert of the 'message_create' handler settles and the handler ends
\* (index.js 339-341, 89-104)
CInsert(i, outcome) ==
  /\ pc[i] = "c_insert"
  /\ LET row == BotMessageData(msgs[i])
         r == StoreMessageIndex(rows, row, outcome)
     IN /\ rows' = r.table
        /\ firstSeen' = NoteFirst(firstSeen, row, rows, r.table)
        /\ loc' = [loc EXCEPT ![i].inserts = @ + 1]
        /\ pc' = [pc EXCEPT ![i] = "done"]
  /\ UNCHANGED <<lastCall, cfg, clock, msgs, others, posts, fwVars, connVars, contactVars, sessVars, replyVars, memVars, httpVars>>

\* somebody posts a message in the group while a followed handler of a group
\* message has yet to fetch the chat (a later post is seen by nothing); the
\* handler the transport starts for the post is one more instance of the
\* pipeline and is not followed
GroupPost(sender, dt) ==
  /\ Cardinality(Delivered) < MaxDelivered
  /\ cfg.delay > 0
  /\ \E k \in 1..MaxMsgs :
        /\ pc[k] \in {"h_getChat", "h_insert", "h_post", "h_delay", "h_fetch"}
        /\ msgs[k].remote = GroupWid
  /\ clock' = clock + dt
  /\ LET m == Received(MaxMsgs + Cardinality(others) + 1, TRUE, sender, clock + dt,
                       Cardinality(Delivered) + 1)
     IN /\ others' = others \cup {m}
        /\ loc' = [k \in 1..MaxMsgs |->
                    IF RepliesTo(m, k)
                      THEN [loc[k] EXCEPT !.humanReplied = TRUE] ELSE loc[k]]
  /\ UNCHANGED <<storeVars, cfg, msgs, pc, posts, fwVars, connVars, contactVars, sessVars, replyVars, memVars, httpVars>>

\* await msg.getChat() settles; on success getSenderRole and storeMessage run
\* up to the insert being issued (index.js 282-295, 51-92); a rejection is
\* caught at line 327.
HGetChat(i, ok) ==
  /\ pc[i] = "h_getChat"
  /\ IF ok
       THEN /\ pc' = [pc EXCEPT ![i] = "h_insert"]
            /\ loc' = [loc EXCEPT ![i].isGroup = EndsWithGUs(msgs[i].remote),
                                  ![i].issued = @ + 1]
       ELSE /\ pc' = [pc EXCEPT ![i] = "done"]
            /\ loc' = loc
  /\ UNCHANGED <<storeVars, cfg, clock, msgs, others, posts, fwVars, connVars, contactVars, sessVars, replyVars, memVars, httpVars>>

\* triggerN8nWebhook issuing its POST without the insert having been awaited
HInsertNotAwaited(i, outcome) ==
  /\ pc[i] = "h_insert"
  /\ cfg.urlSet
  /\ posts[i] = 0
  /\ posts' = [posts EXCEPT ![i] = 1]
  /\ UNCHANGED <<storeVars, cfg, clock, msgs, others, pc, loc, fwVars, connVars, contactVars, sessVars, replyVars, memVars, httpVars>>

\* the insert of index.js storeMessage settles (message_id = msg.id._serialized);
\* triggerN8nWebhook then returns at once without a URL, or issues its POST
\* (index.js 89-100, 289-298, 108-137).
HInsert(i, outcome) ==
  /\ pc[i] = "h_insert"
  /\ LET m == msgs[i]
         row == MessageData(m, m.remote, GetSenderRole(SenderId(m)).role, FALSE)
         r == StoreMessageIndex(rows, row, outcome)
     IN /\ rows' = r.table
        /\ firstSeen' = NoteFirst(firstSeen, row, rows, r.table)
        /\ loc' = [loc EXCEPT ![i].inserts = @ + 1]
        /\ IF cfg.urlSet
             THEN /\ posts' = [posts EXCEPT ![i] = @ + 1]
                  /\ pc' = [pc EXCEPT ![i] = "h_post"]
             ELSE /\ posts' = posts
                  /\ pc' = [pc EXCEPT ![i] = AfterTrigger(i)]
  /\ UNCHANGED <<lastCall, cfg, clock, msgs, others, fwVars, connVars, contactVars, sessVars, replyVars, memVars, httpVars>>

\* the POST of triggerN8nWebhook settles (a failure, one of those the
\* downstream may still produce, is caught at line 141); the handler goes on
\* to the DM switch and the group delay
HPostReturn(i, ok) ==
  /\ pc[i] = "h_post"
  /\ ok \/ failBudget > 0
  /\ failBudget' = IF ok THEN failBudget ELSE failBudget - 1
  /\ pc' = [pc EXCEPT ![i] = AfterTrigger(i)]
  /\ UNCHANGED <<storeVars, cfg, clock, msgs, others, loc, posts, fw, connVars, contactVars, sessVars, replyVars, memVars, httpVars>>

\* setTimeout(resolve, GROUP_RESPONSE_DELAY) fires; chat.fetchMessages is awaited
HDelayFire(i) ==
  /\ pc[i] = "h_delay"
  /\ pc' = [pc EXCEPT ![i] = "h_fetch"]
  /\ UNCHANGED <<storeVars, cfg, clock, msgs, others, loc, posts, fwVars, connVars, contactVars, sessVars, replyVars, memVars, httpVars>>

\* chat.fetchMessages settles: a rejection is caught (line 327); otherwise the
\* human-response check either ends the handler or calls handleIncomingMessage
HFetch(i, ok) ==
  /\ pc[i] = "h_fetch"
  /\ IF ok /\ ~HasHumanResponse(msgs[i], FetchMessages(msgs[i]))
       THEN /\ pc' = [pc EXCEPT ![i] = HimEntry(msgs[i])]
            /\ loc' = loc
       ELSE /\ pc' = [pc EXCEPT ![i] = "done"]
            /\ loc' = [loc EXCEPT ![i].suppressed = ok]
  /\ UNCHANGED <<storeVars, cfg, clock, msgs, others, posts, fwVars, connVars, contactVars, sessVars, replyVars, memVars, httpVars>>

\* what client.getContactById, client.getChatById and msg.getQuotedMessage
\* answer: a contact with a saved name, with a push name only or with neither;
\* a chat with or without a name; a quoted message, or none; or a rejection
Thrown == [thrown |-> TRUE, name |-> "", pushname |-> "", id |-> ""]
ContactOutcomes ==
  {[thrown |-> FALSE, name |-> "Ann", pushname |-> "annie", id |-> ""],
   [thrown |-> FALSE, name |-> "", pushname |-> "annie", id |-> ""],
   [thrown |-> FALSE, name |-> "", pushname |-> "", id |-> ""],
   Thrown}
ChatOutcomes ==
  {[thrown |-> FALSE, name |-> "Team", pushname |-> "", id |-> ""],
   [thrown |-> FALSE, name |-> "", pushname |-> "", id |-> ""],
   Thrown}
QuotedOutcomes ==
  {[thrown |-> FALSE, name |-> "", pushname |-> "", id |-> "q1"],
   [thrown |-> FALSE, name |-> "", pushname |-> "", id |-> ""],
   Thrown}

\* the lookups all answering (a saved name, a chat name, nothing quoted)
NamedContact == [thrown |-> FALSE, name |-> "Ann", pushname |-> "annie", id |-> ""]
NamedChat == [thrown |-> FALSE, name |-> "Team", pushname |-> "", id |-> ""]
NotQuoted == [thrown |-> FALSE, name |-> "", pushname |-> "", id |-> ""]

\* messageHandler.js 91-106: senderName and chatName. One try block holds both
\* lookups: a rejected getContactById skips getChatById.
EnrichNames(isGroup, contact, chat) ==
  LET senderName0 == "Unknown"
      chatName0 == IF isGroup THEN "Group Chat" ELSE "Direct Message"
  IN IF contact.thrown
       THEN [senderName |-> senderName0, chatName |-> chatName0]
       ELSE LET senderName == JsOr(contact.name, JsOr(contact.pushname, "Unknown"))
            IN IF isGroup /\ ~chat.thrown
                 THEN [senderName |-> senderName,
                       chatName |-> JsOr(chat.name, "Group Chat")]
                 ELSE [senderName |-> senderName, chatName |-> chatName0]

\* messageHandler.js 115-123: replyToId ("" is null)
EnrichReplyTo(quoted) == IF quoted.thrown THEN "" ELSE quoted.id

\* the message msg.getQuotedMessage() answers with: one the bot's account
\* sent to the group earlier
Quoted == Sent(MaxMsgs + 1, TRUE, 0, 0)

\* messageHandler.js 118-119, 135: reply_to is quoted.id.id
ReplyToOf(replyToId) == IF replyToId = "" THEN NoReplyTo ELSE IdOnly(Quoted)

\* history: the lookups of lines 96, 101 and 117 that rejected
ThrewOf(isGroup, contact, chat, quoted) ==
  (IF contact.thrown THEN {"contact"} ELSE {})
    \cup (IF ~contact.thrown /\ isGroup /\ chat.thrown THEN {"chat"} ELSE {})
    \cup (IF quoted.thrown THEN {"quoted"} ELSE {})

\* a rejected lookup ending handleIncomingMessage in its outer catch
AfterLookupsUncaught(threw) == IF threw = {} THEN "m_insert" ELSE "done"

\* the rejections are caught at lines 104 and 121; refreshContactData catches
\* its own (contacts.js 54): the handler goes on to storeMessage
AfterLookups(threw) == "m_insert"

\* handleIncomingMessage 90-140: the contact and chat lookups, the contact
\* refresh and the quoted-message lookup settle, and storeMessage issues its
\* insert
MEnrich(i, contact, chat, quoted) ==
  /\ pc[i] = "m_enrich"
  /\ LET isGroup == EndsWithGUs(msgs[i].from)
         names == EnrichNames(isGroup, contact, chat)
         threw == ThrewOf(isGroup, contact, chat, quoted)
         next == AfterLookups(threw)
     IN /\ pc' = [pc EXCEPT ![i] = next]
        /\ loc' = [loc EXCEPT ![i].issued = IF next = "m_insert" THEN @ + 1 ELSE @,
                              ![i].senderName = names.senderName,
                              ![i].chatName = names.chatName,
                              ![i].replyTo = EnrichReplyTo(quoted),
                              ![i].threw = threw]
  /\ UNCHANGED <<storeVars, cfg, clock, msgs, others, posts, fwVars, connVars, contactVars, sessVars, replyVars, memVars, httpVars>>

\* the insert of messageHandler.storeMessage settles (message_id = msg.id.id)
\* and sendToN8nWebhook(payload, 0, log) runs up to its POST (lines 140-160)
MInsert(i, outcome) ==
  /\ pc[i] = "m_insert"
  /\ LET m == msgs[i]
         row == [Row(IdOnly(m), WidStr(m.from), m.id, FALSE,
                     GetSenderRole(SenderId(m)).role)
                   EXCEPT !.reply_to = ReplyToOf(loc[i].replyTo)]
         r == StoreMessage(rows, row, outcome)
         f == SendBegin(fw[i], cfg.urlSet)
     IN /\ rows' = r.table
        /\ firstSeen' = NoteFirst(firstSeen, row, rows, r.table)
        /\ loc' = [loc EXCEPT ![i].inserts = @ + 1, ![i].stored = r.ret]
        /\ fw' = [fw EXCEPT ![i] = f]
        /\ pc' = [pc EXCEPT ![i] = IF f.st = "posting" THEN "m_forward" ELSE "done"]
  /\ UNCHANGED <<lastCall, cfg, clock, msgs, others, posts, failBudget, connVars, contactVars, sessVars, replyVars, memVars, httpVars>>

-----------------------------------------------------------------------------
(* The connection supervisor: index.js startClient, the 'disconnected' and   *)
(* 'auth_failure' handlers of setupClientEvents, the watchdog, the boot      *)
(* timer; storage.js SupabaseStore.                                          *)

NoClient == 0       \* `client = null`

MaxDelayMs == 60000           \* cap of the reconnection backoff
AuthRestartDelayMs == 10000   \* setTimeout(startClient, 10000) after auth_failure
BootDelayMs == 3000           \* setTimeout(startClient, 3000) at boot
MemRestartDelayMs == 5000     \* setTimeout(startClient, 5000) of the memory monitor

Boot == <<"boot", 1>>
Chains == {"chain"} \X (1..MaxEvents)
Watchdogs == {"wd"} \X (1..MaxEvents)
AuthHandlers == {"af"} \X (1..MaxEvents)
MemResets == {"mem"} \X (1..MaxEvents)
TaskIds == {Boot} \cup Chains \cup Watchdogs \cup AuthHandlers \cup MemResets

\* Every callback awaits at most one client, and `client` holds one more.
ClientIds == 1..(Cardinality(TaskIds) + 2)

AbsentClient == [st |-> "absent", ok |-> FALSE]

\* pc: idle (not started), timer (setTimeout pending), init (awaiting
\* client.initialize()), state (awaiting getState()), destroy (awaiting
\* client.destroy()), delete (awaiting supabaseStore.delete()), done.
\* aw is the client the await was called on; from is the client whose event
\* started the callback, when that is another client than `client`.
IdleTask == [pc |-> "idle", aw |-> NoClient, from |-> NoClient, attempt |-> 0, delay |-> 0]

Timer(ms) == [pc |-> "timer", aw |-> NoClient, from |-> NoClient, attempt |-> 0, delay |-> ms]

Finished(rec) == [rec EXCEPT !.pc = "done", !.aw = NoClient]

\* The transport stub: counted from boot and again from every 'disconnected'
\* event, initialize of the n-th and of every later start succeeds and the
\* client reports CONNECTED; earlier starts throw.
InitializeSucceeds(started) == started + 1 >= stub.n

\* a backoff without the cap
ReconnectDelayUncapped(attempt) == (2 ^ attempt) * 1000

\* attemptReconnection(attempt): the delay and the timer (index.js 233-253)
ReconnectDelay(attempt) == Min((2 ^ attempt) * 1000, MaxDelayMs)

AttemptReconnection(attempt) ==
  [pc |-> "timer", aw |-> NoClient, from |-> NoClient, attempt |-> attempt, delay |-> ReconnectDelay(attempt)]

\* a chain that gives up after a failed attempt
OnAttemptFailedGiveUp(attempt) ==
  [pc |-> "done", aw |-> NoClient, from |-> NoClient, attempt |-> attempt, delay |-> 0]

\* `attemptReconnection(attempt + 1)` of the `if` branch (245) and of the catch (251)
OnAttemptFailed(attempt) == AttemptReconnection(attempt + 1)

\* a 'disconnected' handler that ends without attemptReconnection()
NoReconnection ==
  [pc |-> "done", aw |-> NoClient, from |-> NoClient, attempt |-> 0, delay |-> 0]

\* `attemptReconnection()` at the end of the 'disconnected' handler (256)
FirstReconnection == AttemptReconnection(1)

\* `if (!client || state !== 'CONNECTED')` (243) and the else branch (246-248)
OnState(rec, handle, connected) ==
  IF handle # NoClient /\ connected THEN Finished(rec) ELSE OnAttemptFailed(rec.attempt)

\* What the caller does once `await startClient()` has returned or thrown,
\* `handle` being `client` at that time.  The reconnection callback goes on to
\* `await client?.getState()` (242); the timers and the watchdog end there.
AfterStart(t, handle, threw) ==
  IF t \notin Chains THEN Finished(task[t])
  ELSE IF threw \/ handle = NoClient THEN OnAttemptFailed(task[t].attempt)
  ELSE [task[t] EXCEPT !.pc = "state", !.aw = handle]

InUseOf(handle, tk) == ({handle} \cup {tk[t].aw : t \in TaskIds}) \ {NoClient}

FreshId == CHOOSE c \in ClientIds :
             /\ c \notin InUseOf(client, task)
             /\ \A d \in ClientIds : d < c => d \in InUseOf(client, task)

\* a startClient without the test of lines 350-353
StartClientUnguarded(t, handle, f, createOk) ==
  IF createOk
  THEN LET c == FreshId IN
       [client |-> c,
        rec |-> [task[t] EXCEPT !.pc = "init", !.aw = c],
        cl |-> [f EXCEPT ![c] = [st |-> "init", ok |-> InitializeSucceeds(stub.starts)]],
        stub |-> [stub EXCEPT !.starts = Min(@ + 1, stub.n)]]
  ELSE [client |-> NoClient, rec |-> AfterStart(t, NoClient, TRUE), cl |-> f,
        stub |-> [stub EXCEPT !.createFails = @ + 1]]

\* startClient (349-366) up to its first await or its return, called by task
\* t when `client` is `handle` and the clients are in states f.  With a
\* client present it returns at once; otherwise it creates a client and awaits
\* its initialize; when createWhatsAppClient returns null (188-191),
\* setupClientEvents(null) throws and startClient rejects.
StartClient(t, handle, f, createOk) ==
  IF handle # NoClient
  THEN [client |-> handle, rec |-> AfterStart(t, handle, FALSE), cl |-> f, stub |-> stub]
  ELSE IF createOk
  THEN LET c == FreshId IN
       [client |-> c,
        rec |-> [task[t] EXCEPT !.pc = "init", !.aw = c],
        cl |-> [f EXCEPT ![c] = [st |-> "init", ok |-> InitializeSucceeds(stub.starts)]],
        stub |-> [stub EXCEPT !.starts = Min(@ + 1, stub.n)]]
  ELSE [client |-> NoClient, rec |-> AfterStart(t, NoClient, TRUE), cl |-> f,
        stub |-> [stub EXCEPT !.createFails = @ + 1]]

\* The model follows MaxEvents events of the transport and ticks of the watchdog.
MayHappen ==
  Cardinality({t \in TaskIds \ {Boot} : task[t].pc # "idle"})
    + stub.createFails < MaxEvents

\* createWhatsAppClient may fail only where startClient gets to call it.
MayCreate(handle, createOk) ==
  createOk \/ (handle = NoClient /\ MayHappen)

\* The new values of `client`, of one task and of the clients; a client that
\* neither `client` nor an await refers to is not followed further.
Commit(handle, t, rec, f) ==
  LET tk == [task EXCEPT ![t] = rec] IN
  /\ client' = handle
  /\ task' = tk
  /\ cl' = [c \in ClientIds |-> IF c \in InUseOf(handle, tk) THEN f[c] ELSE AbsentClient]

Apply(t, r) ==
  /\ Commit(r.client, t, r.rec, r.cl)
  /\ stub' = r.stub

Destroyed(f, c) == [f EXCEPT ![c] = [st |-> "dead", ok |-> FALSE]]

Connected == client # NoClient /\ cl[client].st = "ready"

NextIdle(S) == CHOOSE t \in S : task[t].pc = "idle" /\ \A u \in S : task[u].pc = "idle" => t[2] <= u[2]

\* app.listen callback: setTimeout(startClient, 3000) fires (480)
BootTimerFire(createOk) ==
  /\ ~exited
  /\ task[Boot].pc = "timer"
  /\ MayCreate(client, createOk)
  /\ Apply(Boot, StartClient(Boot, client, cl, createOk))
  /\ UNCHANGED <<session, exited, storeVars, pipeVars, fwVars, contactVars, sessVars, replyVars, memVars, httpVars>>

\* a startClient whose catch leaves `client` as it is
InitializeReturnKeepsHandle(t) ==
  /\ ~exited
  /\ task[t].pc = "init"
  /\ LET c == task[t].aw IN
       IF cl[c].st = "init" /\ cl[c].ok
       THEN Commit(client, t, AfterStart(t, client, FALSE), [cl EXCEPT ![c].st = "ready"])
       ELSE Commit(client, t, AfterStart(t, client, FALSE), Destroyed(cl, c))
  /\ UNCHANGED <<stub, session, exited, storeVars, pipeVars, fwVars, contactVars, sessVars, replyVars, memVars, httpVars>>

\* `await client.initialize()` of startClient settles (359-365): resolved, or
\* thrown and `client = null`, whichever client `client` refers to by now.
InitializeReturn(t) ==
  /\ ~exited
  /\ task[t].pc = "init"
  /\ LET c == task[t].aw IN
       IF cl[c].st = "init" /\ cl[c].ok
       THEN Commit(client, t, AfterStart(t, client, FALSE), [cl EXCEPT ![c].st = "ready"])
       ELSE Commit(NoClient, t, AfterStart(t, NoClient, FALSE), Destroyed(cl, c))
  /\ UNCHANGED <<stub, session, exited, storeVars, pipeVars, fwVars, contactVars, sessVars, replyVars, memVars, httpVars>>

\* The transport emits 'disconnected' on the connected client; the handler
\* (221-231) finds `client` set and awaits client.destroy().
Disconnected ==
  /\ ~exited
  /\ MayHappen
  /\ Connected
  /\ LET t == NextIdle(Chains) IN
       Commit(client, t, [IdleTask EXCEPT !.pc = "destroy", !.aw = client], Destroyed(cl, client))
  /\ stub' = [stub EXCEPT !.starts = 0]
  /\ UNCHANGED <<session, exited, storeVars, pipeVars, fwVars, contactVars, sessVars, replyVars, memVars, httpVars>>

\* The transport emits 'disconnected' on a client c that was created earlier,
\* was not destroyed and is not the one `client` refers to.  Its handler is
\* the same closure over `client` (221-231): it awaits client.destroy() on
\* what `client` is, or with `client` null goes on to attemptReconnection().
DisconnectedStale(c) ==
  /\ ~exited
  /\ MayHappen
  /\ c \in ClientIds \ {client}
  /\ cl[c].st \in {"init", "ready"}
  /\ LET t == NextIdle(Chains) IN
       IF client # NoClient
         THEN Commit(client, t,
                     [IdleTask EXCEPT !.pc = "destroy", !.aw = client, !.from = c],
                     Destroyed(cl, client))
         ELSE Commit(NoClient, t, FirstReconnection, cl)
  /\ UNCHANGED <<stub, session, exited, storeVars, pipeVars, fwVars, contactVars, sessVars, replyVars, memVars, httpVars>>

\* a 'disconnected' handler with `client = null` inside the try, after the
\* awaited destroy
ChainDestroyReturnClearsInTry(t, threw) ==
  /\ ~exited
  /\ t \in Chains
  /\ task[t].pc = "destroy"
  /\ Commit(IF threw THEN client ELSE NoClient, t, FirstReconnection,
            Destroyed(cl, task[t].aw))
  /\ UNCHANGED <<stub, session, exited, storeVars, pipeVars, fwVars, contactVars, sessVars, replyVars, memVars, httpVars>>

\* client.destroy() of the 'disconnected' handler settles, resolved or thrown
\* (224-228); after the try, client = null (229), then attemptReconnection()
\* (256).
ChainDestroyReturn(t, threw) ==
  /\ ~exited
  /\ t \in Chains
  /\ task[t].pc = "destroy"
  /\ Commit(NoClient, t, FirstReconnection, Destroyed(cl, task[t].aw))
  /\ UNCHANGED <<stub, session, exited, storeVars, pipeVars, fwVars, contactVars, sessVars, replyVars, memVars, httpVars>>

\* The reconnection timer fires (237-239): await startClient().  The timers
\* of the attempts up to `limit` are followed.
ChainTimerFireTo(limit, t, createOk) ==
  /\ ~exited
  /\ t \in Chains
  /\ task[t].pc = "timer"
  /\ task[t].attempt <= limit
  /\ MayCreate(client, createOk)
  /\ Apply(t, StartClient(t, client, cl, createOk))
  /\ UNCHANGED <<session, exited, storeVars, pipeVars, fwVars, contactVars, sessVars, replyVars, memVars, httpVars>>

ChainTimerFire(t, createOk) == ChainTimerFireTo(MaxAttempt, t, createOk)

\* `await client?.getState()` of the reconnection callback settles (242-252).
\* getState of a client that is not connected throws or gives another state;
\* both schedule the next attempt.
ChainStateReturn(t) ==
  /\ ~exited
  /\ t \in Chains
  /\ task[t].pc = "state"
  /\ Commit(client, t, OnState(task[t], client, cl[task[t].aw].st = "ready"), cl)
  /\ UNCHANGED <<stub, session, exited, storeVars, pipeVars, fwVars, contactVars, sessVars, replyVars, memVars, httpVars>>

\* The watchdog interval fires (484-492): without a client it awaits
\* startClient(); with one it awaits client.getState().
WdTick(createOk) ==
  /\ ~exited
  /\ MayHappen
  /\ MayCreate(client, createOk)
  /\ LET t == NextIdle(Watchdogs) IN
       IF client = NoClient
       THEN Apply(t, StartClient(t, client, cl, createOk))
       ELSE /\ Commit(client, t, [IdleTask EXCEPT !.pc = "state", !.aw = client], cl)
            /\ stub' = stub
  /\ UNCHANGED <<session, exited, storeVars, pipeVars, fwVars, contactVars, sessVars, replyVars, memVars, httpVars>>

\* the watchdog callback when the ticks go on for ever: five minutes apart,
\* a tick comes when the callback of the tick before is over, and its record
\* is used again
FreeWatchdog == <<"wd", 1>>

\* a watchdog that only looks at a client that is there
WdIntervalSkipsMissing(createOk) ==
  /\ ~exited
  /\ createOk
  /\ task[FreeWatchdog].pc \in {"idle", "done"}
  /\ LET t == FreeWatchdog IN
       IF client = NoClient
       THEN Commit(client, t, Finished(IdleTask), cl)
       ELSE Commit(client, t, [IdleTask EXCEPT !.pc = "state", !.aw = client], cl)
  /\ UNCHANGED <<stub, session, exited, storeVars, pipeVars, fwVars, contactVars, sessVars, replyVars, memVars, httpVars>>

\* The watchdog interval fires (484-492), every five minutes for as long as
\* the process runs: the same callback as WdTick, its ticks not counted.
WdInterval(createOk) ==
  /\ ~exited
  /\ MayCreate(client, createOk)
  /\ task[FreeWatchdog].pc \in {"idle", "done"}
  /\ LET t == FreeWatchdog IN
       IF client = NoClient
       THEN Apply(t, StartClient(t, client, cl, createOk))
       ELSE /\ Commit(client, t, [IdleTask EXCEPT !.pc = "state", !.aw = client], cl)
            /\ stub' = stub
  /\ UNCHANGED <<session, exited, storeVars, pipeVars, fwVars, contactVars, sessVars, replyVars, memVars, httpVars>>

GetStateOutcomes == {"state", "throw"}

\* client.getState() of the watchdog settles (492-505).  CONNECTED ends the
\* callback.  Another state: await client.destroy() on what `client` is by
\* now, which throws when it is null.  A throw: client = null, startClient().
WdStateReturn(t, outcome, createOk) ==
  /\ ~exited
  /\ t \in Watchdogs
  /\ task[t].pc = "state"
  /\ LET c == task[t].aw IN
       IF cl[c].st = "ready"
       THEN /\ outcome = "state" /\ createOk
            /\ Commit(client, t, Finished(task[t]), cl)
            /\ stub' = stub
       ELSE IF outcome = "state" /\ client # NoClient
       THEN /\ createOk
            /\ Commit(client, t, [task[t] EXCEPT !.pc = "destroy", !.aw = client], Destroyed(cl, client))
            /\ stub' = stub
       ELSE /\ MayCreate(NoClient, createOk)
            /\ Apply(t, StartClient(t, NoClient, cl, createOk))
  /\ UNCHANGED <<session, exited, storeVars, pipeVars, fwVars, contactVars, sessVars, replyVars, memVars, httpVars>>

\* client.destroy() of the watchdog settles: resolved (498-499) or thrown
\* (503-504), either way client = null and startClient().
WdDestroyReturn(t, createOk) ==
  /\ ~exited
  /\ t \in Watchdogs
  /\ task[t].pc = "destroy"
  /\ MayCreate(NoClient, createOk)
  /\ Apply(t, StartClient(t, NoClient, Destroyed(cl, task[t].aw), createOk))
  /\ UNCHANGED <<session, exited, storeVars, pipeVars, fwVars, contactVars, sessVars, replyVars, memVars, httpVars>>

\* The transport emits 'auth_failure' on the client that is initializing; the
\* handler (259-262) awaits supabaseStore.delete().
AuthFailure ==
  /\ ~exited
  /\ client # NoClient
  /\ cl[client].st = "init"
  /\ MayHappen
  /\ LET t == NextIdle(AuthHandlers) IN
       Commit(client, t, [IdleTask EXCEPT !.pc = "delete"], cl)
  /\ UNCHANGED <<stub, session, exited, storeVars, pipeVars, fwVars, contactVars, sessVars, replyVars, memVars, httpVars>>

DeleteOutcomes == {"deleted", "error", "throw"}

\* SupabaseStore.delete (storage.js 51-58): the backend deletes the record, or
\* answers with an error value, which is logged, or the call throws.
SupabaseStoreDelete(record, outcome) ==
  [record |-> IF outcome = "deleted" THEN FALSE ELSE record,
   threw |-> outcome = "throw"]

\* the handler with `client` kept when the delete has resolved
AfDeleteReturnKeepsHandle(t, outcome) ==
  /\ ~exited
  /\ t \in AuthHandlers
  /\ task[t].pc = "delete"
  /\ LET r == SupabaseStoreDelete(session, outcome) IN
       /\ session' = r.record
       /\ IF r.threw
          THEN /\ exited' = TRUE
               /\ task' = [task EXCEPT ![t].pc = "catch"]
               /\ UNCHANGED <<client, cl>>
          ELSE /\ exited' = FALSE
               /\ Commit(client, t, Timer(AuthRestartDelayMs), cl)
  /\ UNCHANGED <<stub, storeVars, pipeVars, fwVars, contactVars, sessVars, replyVars, memVars, httpVars>>

\* the handler with a catch block that logs and recovers like the try block
AfDeleteReturnRecovers(t, outcome) ==
  /\ ~exited
  /\ t \in AuthHandlers
  /\ task[t].pc = "delete"
  /\ LET r == SupabaseStoreDelete(session, outcome) IN
       /\ session' = r.record
       /\ exited' = FALSE
       /\ IF r.threw
          THEN Commit(NoClient, t, [Timer(AuthRestartDelayMs) EXCEPT !.pc = "catch"], cl)
          ELSE Commit(NoClient, t, Timer(AuthRestartDelayMs), cl)
  /\ UNCHANGED <<stub, storeVars, pipeVars, fwVars, contactVars, sessVars, replyVars, memVars, httpVars>>

\* supabaseStore.delete() settles (262-271): resolved, client = null and
\* setTimeout(startClient, 10000); thrown, the catch block (267-271) is
\* entered and process.exit(1) ends the process there.
AfDeleteReturn(t, outcome) ==
  /\ ~exited
  /\ t \in AuthHandlers
  /\ task[t].pc = "delete"
  /\ LET r == SupabaseStoreDelete(session, outcome) IN
       /\ session' = r.record
       /\ IF r.threw
          THEN /\ exited' = TRUE
               /\ task' = [task EXCEPT ![t].pc = "catch"]
               /\ UNCHANGED <<client, cl>>
          ELSE /\ exited' = FALSE
               /\ Commit(NoClient, t, Timer(AuthRestartDelayMs), cl)
  /\ UNCHANGED <<stub, storeVars, pipeVars, fwVars, contactVars, sessVars, replyVars, memVars, httpVars>>

\* setTimeout(startClient, 10000) fires (266)
AfTimerFire(t, createOk) ==
  /\ ~exited
  /\ t \in AuthHandlers
  /\ task[t].pc = "timer"
  /\ MayCreate(client, createOk)
  /\ Apply(t, StartClient(t, client, cl, createOk))
  /\ UNCHANGED <<session, exited, storeVars, pipeVars, fwVars, contactVars, sessVars, replyVars, memVars, httpVars>>

\* process.memoryUsage().rss is in bytes; rssMB = (mem.rss / 1024 / 1024)
\* .toFixed(1) (index.js 511) is the reading rounded to a tenth of a megabyte,
\* kept here as a number of tenths.
BytesPerMB == 1024 * 1024

RssMB(rss) ==
  LET whole == rss \div BytesPerMB
      rest == rss % BytesPerMB
  IN 10 * whole + (10 * rest + BytesPerMB \div 2) \div BytesPerMB

CriticalMB == 450   \* if (parseFloat(rssMB) > 450) (518)
HighMB == 350       \* else if (parseFloat(rssMB) > 350) (541)

\* the branch checkMemoryUsage takes (518, 541)
MemoryLevel(rss) ==
  IF RssMB(rss) > 10 * CriticalMB THEN "critical"
  ELSE IF RssMB(rss) > 10 * HighMB THEN "high"
  ELSE "normal"

\* readings around the two marks: whole megabytes, one byte more, and the
\* two readings between which the rounding to a tenth changes
RssValues ==
  {q * BytesPerMB + r : q \in {100, 350, 400, 450, 500}, r \in {0, 1, 52428, 52429}}

CriticalRss == 500 * BytesPerMB

NoReading == [rss |-> 0, level |-> "none"]

MemIdle == memory = NoReading

\* checkMemoryUsage (509-548) with the reading rss: above the critical mark
\* with `client` set it starts the async block that awaits client.destroy()
\* (529-532); global.gc() and the logs change nothing followed here.
CheckMemoryUsage(rss) ==
  /\ ~exited
  /\ memory' = [rss |-> rss, level |-> MemoryLevel(rss)]
  /\ IF MemoryLevel(rss) = "critical" /\ client # NoClient
       THEN /\ MayHappen
            /\ LET t == NextIdle(MemResets) IN
                 Commit(client, t, [IdleTask EXCEPT !.pc = "destroy", !.aw = client],
                        Destroyed(cl, client))
       ELSE UNCHANGED <<client, cl, task>>
  /\ UNCHANGED <<stub, session, exited, storeVars, pipeVars, fwVars, contactVars, sessVars, replyVars, httpVars>>

\* a check that finds the memory critical
MemoryCritical == CheckMemoryUsage(CriticalRss)

\* client.destroy() of the memory monitor settles: resolved, client = null
\* and setTimeout(startClient, 5000) (532-534); thrown, only logged (535-537)
MemDestroyReturn(t, threw) ==
  /\ ~exited
  /\ t \in MemResets
  /\ task[t].pc = "destroy"
  /\ IF threw
       THEN Commit(client, t, Finished(task[t]), Destroyed(cl, task[t].aw))
       ELSE Commit(NoClient, t, Timer(MemRestartDelayMs), Destroyed(cl, task[t].aw))
  /\ UNCHANGED <<stub, session, exited, storeVars, pipeVars, fwVars, contactVars, sessVars, replyVars, memVars, httpVars>>

\* setTimeout(startClient, 5000) fires (534)
MemTimerFire(t, createOk) ==
  /\ ~exited
  /\ t \in MemResets
  /\ task[t].pc = "timer"
  /\ MayCreate(client, createOk)
  /\ Apply(t, StartClient(t, client, cl, createOk))
  /\ UNCHANGED <<session, exited, storeVars, pipeVars, fwVars, contactVars, sessVars, replyVars, memVars, httpVars>>

\* The HTTP surface.  index.js registers GET /ping and GET /health (373-401)
\* and then calls configureRoutes(app, client, supabase, log) (436) while the
\* module is loaded, when `client` is still the null of line 48: the parameter
\* `client` of configureRoutes (routes.js 3) is bound to that value for good.
RoutesClient == NoClient

NoRequest == [path |-> "", by |-> "", handle |-> NoClient, status |-> 0, body |-> ""]

HttpIdle == http = NoRequest

\* client.getState() as a request handler sees it: CONNECTED from a connected
\* client; from another client a different state or a throw
StateOf(c, threw) ==
  IF cl[c].st = "ready" THEN "CONNECTED" ELSE IF threw THEN "throw" ELSE "OPENING"

\* GET /health of index.js (384-401), over the module variable `client`
IndexHealth(threw) ==
  LET clientState == IF client # NoClient THEN StateOf(client, threw) ELSE "NOT_INITIALIZED"
  IN IF clientState = "throw" THEN [status |-> 500, body |-> "error"]
     ELSE [status |-> 200, body |-> clientState]

\* GET /health of configureRoutes (routes.js 19-67), over its parameter
RoutesHealth(threw) ==
  LET clientState == IF RoutesClient # NoClient THEN StateOf(RoutesClient, threw) ELSE "NO_CLIENT"
  IN IF clientState = "throw" THEN [status |-> 500, body |-> "error"]
     ELSE [status |-> 200, body |-> clientState]

\* the handlers of a path in the order of their registration; Express calls
\* the first, and none of these calls next()
Handlers(path) ==
  IF path = "/health" THEN <<"index", "routes">>
  ELSE IF path = "/send-message" THEN <<"routes">>
  ELSE <<>>

\* POST /send-message of configureRoutes (routes.js 70-135)
RoutesSendMessage(hasChatId, hasMessage, sendOk) ==
  IF ~hasChatId \/ ~hasMessage
    THEN [status |-> 400, body |-> "Missing chatId or message"]
  ELSE IF RoutesClient = NoClient
    THEN [status |-> 503, body |-> "WhatsApp client not ready"]
  ELSE IF sendOk /\ cl[RoutesClient].st = "ready"
    THEN [status |-> 200, body |-> "success"]
  ELSE [status |-> 500, body |-> "error"]

\* a GET /health request is served
GetHealth(threw) ==
  /\ ~exited
  /\ LET by == Head(Handlers("/health"))
         r == IF by = "index" THEN IndexHealth(threw) ELSE RoutesHealth(threw)
     IN http' = [path |-> "/health", by |-> by, handle |-> client,
                 status |-> r.status, body |-> r.body]
  /\ UNCHANGED <<connVars, storeVars, pipeVars, fwVars, contactVars, sessVars, replyVars, memVars>>

\* a POST /send-message request is served
PostSendMessage(hasChatId, hasMessage, sendOk) ==
  /\ ~exited
  /\ LET r == RoutesSendMessage(hasChatId, hasMessage, sendOk)
     IN http' = [path |-> "/send-message", by |-> Head(Handlers("/send-message")),
                 handle |-> client, status |-> r.status,
                 body |-> r.body]
  /\ UNCHANGED <<connVars, storeVars, pipeVars, fwVars, contactVars, sessVars, replyVars, memVars>>

\* RemoteAuth saves the session of the connected client through
\* SupabaseStore.save (storage.js 39-49, index.js 164-168).
SaveSession ==
  /\ ~exited
  /\ Connected
  /\ ~session
  /\ session' = TRUE
  /\ UNCHANGED <<client, cl, task, stub, exited, storeVars, pipeVars, fwVars, contactVars, sessVars, replyVars, memVars, httpVars>>

ConnIdle ==
  /\ client = NoClient
  /\ cl = [c \in ClientIds |-> AbsentClient]
  /\ task = [t \in TaskIds |-> IF t = Boot THEN Timer(BootDelayMs) ELSE IdleTask]
  /\ session = FALSE
  /\ exited = FALSE
  /\ stub = [n |-> 1, starts |-> 0, createFails |-> 0]

-----------------------------------------------------------------------------
(* Specifications *)

StoreIdle ==
  /\ rows = EmptyBag
  /\ lastCall = NoCall
  /\ firstSeen = {}

PipeIdle ==
  /\ clock = 0
  /\ msgs = [i \in 1..MaxMsgs |-> NoMsg]
  /\ others = {}
  /\ pc = [i \in 1..MaxMsgs |-> "idle"]
  /\ loc = [i \in 1..MaxMsgs |-> NoLoc]
  /\ posts = [i \in 1..MaxMsgs |-> 0]

SmallJob == IdleJob([n |-> 1, m |-> 0], NoText, 1, 200)

\* SpecStore: storeMessage called with every message_id and content
InitStore ==
  /\ StoreIdle /\ PipeIdle /\ ConnIdle /\ ContactsIdle /\ SessIdle /\ ReplyIdle /\ MemIdle /\ HttpIdle
  /\ cfg = [enableDm |-> FALSE, urlSet |-> TRUE, build |-> "pipeline",
            delay |-> DefaultGroupDelay]
  /\ fw = [j \in 1..MaxMsgs |-> SmallJob]
  /\ failBudget = 0

NextStore ==
  \/ \E id \in StoreIds, c \in Contents, o \in BackendOutcomes :
        CallStoreMessage(id, c, o)
  \/ \E id \in StoreIds, c \in Contents, o \in BackendOutcomes :
        CallStoreMessageIndex(id, c, o)

SpecStore == InitStore /\ [][NextStore]_vars

\* SpecContacts: refreshContactData called at any time, by calls that may
\* overlap, against sheets that answer, answer without the array, or fail
InitContacts ==
  /\ StoreIdle /\ PipeIdle /\ ConnIdle /\ ContactsIdle /\ SessIdle /\ ReplyIdle /\ MemIdle /\ HttpIdle
  /\ cfg = [enableDm |-> FALSE, urlSet |-> TRUE, build |-> "pipeline",
            delay |-> DefaultGroupDelay]
  /\ fw = [j \in 1..MaxMsgs |-> SmallJob]
  /\ failBudget = 0

NextContacts ==
  \/ \E k \in 1..MaxCalls : RefreshCall(k)
  \/ \E k \in 1..MaxCalls, r \in Responses : ClientsReturn(k, r)
  \/ \E k \in 1..MaxCalls, r \in Responses : EmployeesReturn(k, r)
  \/ \E d \in {1, DataRefreshInterval - 1} : Advance(d)

SpecContacts == InitContacts /\ [][NextContacts]_vars

\* SpecSession: the four operations of SupabaseStore called in any order,
\* against a backend that runs the query, answers with an error or throws;
\* the table may hold the record of another instance
InitSession ==
  /\ StoreIdle /\ PipeIdle /\ ConnIdle /\ ContactsIdle /\ ReplyIdle /\ MemIdle /\ HttpIdle
  /\ sessions \in {{}, {[session_key |-> OtherKey, session_data |-> "b1"]}}
  /\ sess = NoSess
  /\ cfg = [enableDm |-> FALSE, urlSet |-> TRUE, build |-> "pipeline",
            delay |-> DefaultGroupDelay]
  /\ fw = [j \in 1..MaxMsgs |-> SmallJob]
  /\ failBudget = 0

NextSession ==
  \/ \E k \in {SessionId, RemoteAuthName, OtherKey}, o \in StoreOutcomes :
        CallSessionExists(k, o)
  \/ \E o \in StoreOutcomes : CallExtract(o)
  \/ \E b \in Blobs, o \in StoreOutcomes : CallSave(b, o)
  \/ \E o \in StoreOutcomes : CallDelete(o)

SpecSession == InitSession /\ [][NextSession]_vars

\* SpecReply: triggerAIResponse called once, in either copy, with every
\* outcome of its awaits
InitReply ==
  /\ StoreIdle /\ PipeIdle /\ ConnIdle /\ ContactsIdle /\ SessIdle /\ ReplyIdle /\ MemIdle /\ HttpIdle
  /\ cfg = [enableDm |-> FALSE, urlSet |-> TRUE, build |-> "pipeline",
            delay |-> DefaultGroupDelay]
  /\ fw = [j \in 1..MaxMsgs |-> SmallJob]
  /\ failBudget = 0

NextReply ==
  \/ \E b \in ReplyBuilds, u \in BOOLEAN : AiCall(b, u)
  \/ \E ok \in BOOLEAN, g \in BOOLEAN, n \in {"", "Ann"} : AiGetChatReturn(ok, g, n)
  \/ \E o \in StoreOutcomes : AiHistoryReturn(o)
  \/ \E a \in AiAnswers : AiPostReturn(a)
  \/ \E ok \in BOOLEAN : AiQuotedSendReturn(ok)
  \/ \E ok \in BOOLEAN : AiPlainSendReturn(ok)

SpecReply == InitReply /\ [][NextReply]_vars

\* SpecPhone: formatPhoneNumber on every string of up to MaxPhoneLen
\* characters over a leading-zero digit, another digit and a separator
PhoneChars == {"0", "9", "-"}
PhoneInputs == UNION {[1..n -> PhoneChars] : n \in 0..MaxPhoneLen}

InitPhone ==
  /\ StoreIdle /\ PipeIdle /\ ConnIdle
  /\ clientContacts = EmptyMap
  /\ employeeContacts = EmptyMap
  /\ lastDataRefresh = 0
  /\ wall = StartTime
  /\ refresh = [k \in 1..MaxCalls |-> IdleRefresh]
  /\ fmt \in {[NoFmt EXCEPT !.x = x] : x \in PhoneInputs}
  /\ SessIdle /\ ReplyIdle /\ MemIdle /\ HttpIdle
  /\ cfg = [enableDm |-> FALSE, urlSet |-> TRUE, build |-> "pipeline",
            delay |-> DefaultGroupDelay]
  /\ fw = [j \in 1..MaxMsgs |-> SmallJob]
  /\ failBudget = 0

NextPhone == Format

SpecPhone == InitPhone /\ [][NextPhone]_vars

\* SpecHandle: handleIncomingMessage called for each 'message' event (the
\* registration of index.js 750) with every outcome of its lookups, of its
\* insert and of its POSTs; the table is empty or holds a row of the first
\* message from an earlier delivery of it.
EarlierRow == Row(IdOnly([id |-> 1]), WidStr(GroupWid), 0, FALSE, "unknown")

InitHandle ==
  /\ PipeIdle /\ ConnIdle /\ ContactsIdle /\ SessIdle /\ ReplyIdle /\ MemIdle /\ HttpIdle
  /\ lastCall = NoCall
  /\ \/ rows = EmptyBag /\ firstSeen = {}
     \/ /\ rows = SetToBag({EarlierRow})
        /\ firstSeen = {<<EarlierRow.message_id, EarlierRow.content>>}
  /\ cfg \in [enableDm : BOOLEAN, urlSet : BOOLEAN, build : {"direct"}, delay : {0}]
  /\ fw = [j \in 1..MaxMsgs |-> SmallJob]
  /\ failBudget = MaxPostFails

NextHandle ==
  \/ \E i \in 1..MaxMsgs, g \in BOOLEAN : MessageEvent(i, g, "u1", 0)
  \/ \E i \in 1..MaxMsgs, c \in ContactOutcomes, h \in ChatOutcomes,
        q \in QuotedOutcomes : MEnrich(i, c, h, q)
  \/ \E i \in 1..MaxMsgs, o \in BackendOutcomes : MInsert(i, o)
  \/ \E j \in 1..MaxMsgs, ok \in BOOLEAN : FwPostReturn(j, ok)
  \/ \E j \in 1..MaxMsgs : FwTimerFire(j)

SpecHandle == InitHandle /\ [][NextHandle]_vars

\* SpecFwd: sendToN8nWebhook called on payloads around the two limits, with
\* and without an endpoint, the downstream failing any number of POSTs
TextLens == {1000, 1001, 30000}
ReplyLens == {0, 500, 501}
BytesPerChar == {1, 3}
OtherBytes == {200, 88985, 88986}
Payloads ==
  {IdleJob([n |-> n, m |-> 0], [n |-> r, m |-> 0], b, o) :
     n \in TextLens, r \in ReplyLens, b \in BytesPerChar, o \in OtherBytes}

InitFwd ==
  /\ StoreIdle /\ PipeIdle /\ ConnIdle /\ ContactsIdle /\ SessIdle /\ ReplyIdle /\ MemIdle /\ HttpIdle
  /\ cfg \in [enableDm : {FALSE}, urlSet : BOOLEAN, build : {"pipeline"},
               delay : {DefaultGroupDelay}]
  /\ fw \in [1..MaxMsgs -> Payloads]
  /\ failBudget = MaxMsgs * (LastRetryAttempt + 1)

NextFwd ==
  \/ \E j \in 1..MaxMsgs : FwCall(j)
  \/ \E j \in 1..MaxMsgs, ok \in BOOLEAN : FwPostReturn(j, ok)
  \/ \E j \in 1..MaxMsgs : FwTimerFire(j)

SpecFwd == InitFwd /\ [][NextFwd]_vars

\* Spec: the inbound pipeline with a downstream endpoint configured, under
\* every setting of the DM switch, the group delay and the build
Configs ==
  [enableDm : BOOLEAN, urlSet : {TRUE}, build : {"pipeline", "direct"},
   delay : {0, DefaultGroupDelay}]

Init ==
  /\ StoreIdle /\ PipeIdle /\ ConnIdle /\ ContactsIdle /\ SessIdle /\ ReplyIdle /\ MemIdle /\ HttpIdle
  /\ cfg \in Configs
  /\ fw = [j \in 1..MaxMsgs |-> SmallJob]
  /\ failBudget = MaxPostFails

Next ==
  \/ \E i \in 1..MaxMsgs, g \in BOOLEAN, u \in Users, dt \in {0, 1} :
        MessageEvent(i, g, u, dt)
  \/ \E i \in 1..MaxMsgs, g \in BOOLEAN : MessageCreateEvent(i, g)
  \/ \E i \in 1..MaxMsgs, ok \in BOOLEAN : CGetChat(i, ok)
  \/ \E i \in 1..MaxMsgs, o \in BackendOutcomes : CInsert(i, o)
  \/ \E u \in Users, dt \in {0, 1} : GroupPost(u, dt)
  \/ \E i \in 1..MaxMsgs, ok \in BOOLEAN : HGetChat(i, ok)
  \/ \E i \in 1..MaxMsgs, o \in BackendOutcomes : HInsert(i, o)
  \/ \E i \in 1..MaxMsgs, ok \in BOOLEAN : HPostReturn(i, ok)
  \/ \E i \in 1..MaxMsgs : HDelayFire(i)
  \/ \E i \in 1..MaxMsgs, ok \in BOOLEAN : HFetch(i, ok)
  \/ \E i \in 1..MaxMsgs : MEnrich(i, NamedContact, NamedChat, NotQuoted)
  \/ \E i \in 1..MaxMsgs, o \in BackendOutcomes : MInsert(i, o)
  \/ \E i \in 1..MaxMsgs, ok \in BOOLEAN : FwPostReturn(i, ok)
  \/ \E i \in 1..MaxMsgs : FwTimerFire(i)

Spec == Init /\ [][Next]_vars

\* SpecReplies: the pipeline build receiving a message that may quote a
\* message the bot's account sent earlier, which the 'message_create' handler
\* stored or failed to store
InitReplies ==
  /\ PipeIdle /\ ConnIdle /\ ContactsIdle /\ SessIdle /\ ReplyIdle /\ MemIdle /\ HttpIdle
  /\ lastCall = NoCall
  /\ \/ rows = EmptyBag /\ firstSeen = {}
     \/ LET row == BotMessageData(Quoted) IN
          /\ rows = SetToBag({row})
          /\ firstSeen = {<<row.message_id, row.content>>}
  /\ cfg \in {c \in Configs : c.build = "pipeline" /\ c.delay = 0}
  /\ fw = [j \in 1..MaxMsgs |-> SmallJob]
  /\ failBudget = MaxPostFails

NextReplies ==
  \/ \E i \in 1..MaxMsgs, g \in BOOLEAN : MessageEvent(i, g, "u1", 0)
  \/ \E i \in 1..MaxMsgs, ok \in BOOLEAN : HGetChat(i, ok)
  \/ \E i \in 1..MaxMsgs, o \in BackendOutcomes : HInsert(i, o)
  \/ \E i \in 1..MaxMsgs, ok \in BOOLEAN : HPostReturn(i, ok)
  \/ \E i \in 1..MaxMsgs, q \in QuotedOutcomes : MEnrich(i, NamedContact, NamedChat, q)
  \/ \E i \in 1..MaxMsgs, o \in BackendOutcomes : MInsert(i, o)
  \/ \E j \in 1..MaxMsgs, ok \in BOOLEAN : FwPostReturn(j, ok)
  \/ \E j \in 1..MaxMsgs : FwTimerFire(j)

SpecReplies == InitReplies /\ [][NextReplies]_vars

\* SpecConn: the connection supervisor from boot, against a transport whose
\* n-th start is the first to succeed.
Stubs == [n : 1..MaxStub, starts : {0}, createFails : {0}]

InitConn ==
  /\ StoreIdle /\ PipeIdle /\ ContactsIdle /\ SessIdle /\ ReplyIdle /\ MemIdle /\ HttpIdle
  /\ cfg \in {c \in Configs : c.enableDm /\ c.build = "pipeline" /\ c.delay = 0}
  /\ fw = [j \in 1..MaxMsgs |-> SmallJob]
  /\ failBudget = MaxPostFails
  /\ client = NoClient
  /\ cl = [c \in ClientIds |-> AbsentClient]
  /\ task = [t \in TaskIds |-> IF t = Boot THEN Timer(BootDelayMs) ELSE IdleTask]
  /\ session \in BOOLEAN
  /\ exited = FALSE
  /\ stub \in Stubs

NextConn ==
  \/ \E ok \in BOOLEAN : BootTimerFire(ok)
  \/ \E t \in TaskIds : InitializeReturn(t)
  \/ Disconnected
  \/ \E t \in Chains, threw \in BOOLEAN : ChainDestroyReturn(t, threw)
  \/ \E t \in Chains, ok \in BOOLEAN : ChainTimerFire(t, ok)
  \/ \E t \in Chains : ChainStateReturn(t)
  \/ \E ok \in BOOLEAN : WdTick(ok)
  \/ \E t \in Watchdogs, o \in GetStateOutcomes, ok \in BOOLEAN : WdStateReturn(t, o, ok)
  \/ \E t \in Watchdogs, ok \in BOOLEAN : WdDestroyReturn(t, ok)
  \/ AuthFailure
  \/ \E t \in AuthHandlers, o \in DeleteOutcomes : AfDeleteReturn(t, o)
  \/ \E t \in AuthHandlers, ok \in BOOLEAN : AfTimerFire(t, ok)
  \/ SaveSession

SpecConn == InitConn /\ [][NextConn]_vars

\* SpecStart: every caller of startClient, the memory monitor included
NextStart ==
  \/ NextConn
  \/ MemoryCritical
  \/ \E t \in MemResets, threw \in BOOLEAN : MemDestroyReturn(t, threw)
  \/ \E t \in MemResets, ok \in BOOLEAN : MemTimerFire(t, ok)

SpecStart == InitConn /\ [][NextStart]_vars

\* SpecReconnect: reconnection after 'disconnected' events of a paired
\* instance, with the watchdog ticking in between and createWhatsAppClient
\* failing.  A timer that is set fires and an await that is pending settles:
\* some step of the callbacks is taken as long as one is possible.  The events
\* of the transport and the ticks of the watchdog (every five minutes) happen
\* or not.
InitReconnect ==
  /\ InitConn
  /\ session = TRUE

CallbackStep(t) ==
  \/ t = Boot /\ \E ok \in BOOLEAN : BootTimerFire(ok)
  \/ InitializeReturn(t)
  \/ \E threw \in BOOLEAN : ChainDestroyReturn(t, threw)
  \/ \E ok \in BOOLEAN : ChainTimerFire(t, ok)
  \/ ChainStateReturn(t)
  \/ \E o \in GetStateOutcomes, ok \in BOOLEAN : WdStateReturn(t, o, ok)
  \/ \E ok \in BOOLEAN : WdDestroyReturn(t, ok)

NextReconnect ==
  \/ \E ok \in BOOLEAN : BootTimerFire(ok)
  \/ \E t \in TaskIds : InitializeReturn(t)
  \/ Disconnected
  \/ \E t \in Chains, threw \in BOOLEAN : ChainDestroyReturn(t, threw)
  \/ \E t \in Chains, ok \in BOOLEAN : ChainTimerFire(t, ok)
  \/ \E t \in Chains : ChainStateReturn(t)
  \/ \E ok \in BOOLEAN : WdTick(ok)
  \/ \E t \in Watchdogs, o \in GetStateOutcomes, ok \in BOOLEAN : WdStateReturn(t, o, ok)
  \/ \E t \in Watchdogs, ok \in BOOLEAN : WdDestroyReturn(t, ok)

FairReconnect == WF_vars(\E t \in TaskIds : CallbackStep(t))

SpecReconnect == InitReconnect /\ [][NextReconnect]_vars /\ FairReconnect

\* SpecWatch: the supervisor of a paired instance from boot, with a watchdog
\* interval that never stops, against initialize failures, getState failures
\* and createWhatsAppClient failures; no event of the transport (the
\* reconnection chains are those of SpecReconnect).  A timer that is set
\* fires and an await that is pending settles: some step of the callbacks is
\* taken as long as one is possible; and the interval ticks.
NextWatch ==
  \/ \E ok \in BOOLEAN : BootTimerFire(ok)
  \/ \E t \in TaskIds : InitializeReturn(t)
  \/ \E ok \in BOOLEAN : WdInterval(ok)
  \/ \E t \in Watchdogs, o \in GetStateOutcomes, ok \in BOOLEAN : WdStateReturn(t, o, ok)
  \/ \E t \in Watchdogs, ok \in BOOLEAN : WdDestroyReturn(t, ok)

FairWatch ==
  /\ WF_vars(\E ok \in BOOLEAN : WdInterval(ok))
  /\ WF_vars(\E t \in TaskIds : CallbackStep(t))

SpecWatch == InitReconnect /\ [][NextWatch]_vars /\ FairWatch

\* SpecBackoff: one reconnection chain followed over MaxBackoffAttempt
\* attempts, from the 'disconnected' handler awaiting client.destroy(),
\* against a transport that comes back at any of these attempts or later.
FirstChain == <<"chain", 1>>

InitBackoff ==
  /\ StoreIdle /\ PipeIdle /\ ContactsIdle /\ SessIdle /\ ReplyIdle /\ MemIdle /\ HttpIdle
  /\ cfg \in {c \in Configs : c.enableDm /\ c.build = "pipeline" /\ c.delay = 0}
  /\ fw = [j \in 1..MaxMsgs |-> SmallJob]
  /\ failBudget = MaxPostFails
  /\ client = 1
  /\ cl = [c \in ClientIds |-> IF c = 1 THEN [st |-> "dead", ok |-> FALSE] ELSE AbsentClient]
  /\ task = [t \in TaskIds |->
               IF t = Boot THEN Finished(Timer(BootDelayMs))
               ELSE IF t = FirstChain THEN [IdleTask EXCEPT !.pc = "destroy", !.aw = 1]
               ELSE IdleTask]
  /\ session = TRUE
  /\ exited = FALSE
  /\ stub \in [n : 1..(MaxBackoffAttempt + 2), starts : {0}, createFails : {0}]

NextBackoff ==
  \/ \E threw \in BOOLEAN : ChainDestroyReturn(FirstChain, threw)
  \/ \E ok \in BOOLEAN : ChainTimerFireTo(MaxBackoffAttempt, FirstChain, ok)
  \/ InitializeReturn(FirstChain)
  \/ ChainStateReturn(FirstChain)

SpecBackoff == InitBackoff /\ [][NextBackoff]_vars

\* SpecMemory: the memory monitor with any reading, next to the boot timer
\* and the clients it restarts
NextMemory ==
  \/ \E ok \in BOOLEAN : BootTimerFire(ok)
  \/ \E t \in TaskIds : InitializeReturn(t)
  \/ \E rss \in RssValues : CheckMemoryUsage(rss)
  \/ \E t \in MemResets, threw \in BOOLEAN : MemDestroyReturn(t, threw)
  \/ \E t \in MemResets, ok \in BOOLEAN : MemTimerFire(t, ok)

SpecMemory == InitConn /\ [][NextMemory]_vars

\* SpecStale: the supervisor of SpecConn with the events of the clients it
\* has dropped without destroying them
NextStale ==
  \/ NextConn
  \/ \E c \in ClientIds : DisconnectedStale(c)

SpecStale == InitConn /\ [][NextStale]_vars

\* SpecHttp: requests served while the client is started, disconnects and
\* is reconnected
NextHttp ==
  \/ \E ok \in BOOLEAN : BootTimerFire(ok)
  \/ \E t \in TaskIds : InitializeReturn(t)
  \/ Disconnected
  \/ \E t \in Chains, threw \in BOOLEAN : ChainDestroyReturn(t, threw)
  \/ \E t \in Chains, ok \in BOOLEAN : ChainTimerFire(t, ok)
  \/ \E t \in Chains : ChainStateReturn(t)
  \/ \E threw \in BOOLEAN : GetHealth(threw)
  \/ \E c, m, ok \in BOOLEAN : PostSendMessage(c, m, ok)

SpecHttp == InitConn /\ [][NextHttp]_vars

-----------------------------------------------------------------------------
(* Claims about the message store and the inbound pipeline *)

\* C1: two inserts with the same message_id leave exactly one row for it,
\* holding the content of the first insert the table accepted; the later
\* insert returns the rejected value (false / null) and raises nothing.
C1_DuplicateInsertRejected ==
  /\ \A id \in StoreIds : CountOf(rows, id) <= 1
  /\ \A p \in firstSeen :
        /\ CountOf(rows, p[1]) = 1
        /\ \A r \in BagToSet(rows) : r.message_id = p[1] => r.content = p[2]
  /\ lastCall.made =>
        /\ ~lastCall.raised
        /\ lastCall.existed => ~lastCall.ret

\* a second insert of a stored message_id, with another content, has reached
\* the table and was refused
C1_Witness ==
  /\ lastCall.made /\ lastCall.existed /\ lastCall.outcome = "reach"
  /\ ~lastCall.ret
  /\ \E p \in firstSeen : p[1] = lastCall.message_id /\ p[2] # lastCall.content

\* C2: processing one 'message' event end to end never leaves two rows that
\* describe the same transport message, whatever identifier each store call uses.
C2_OneRecordPerMessage ==
  \A i \in 1..MaxMsgs :
    Cardinality({r \in BagToSet(rows) : TransportId(r.message_id) = i}) <= 1

\* C3: every received message not authored by the bot reaches the insert step:
\* when its handler has finished, an insert was issued for it.
C3_EveryMessageReachesInsert ==
  \A i \in 1..MaxMsgs :
    (pc[i] = "done" /\ ~msgs[i].fromMe) => loc[i].issued >= 1

\* the POSTs issued for message i, by triggerN8nWebhook and by sendToN8nWebhook
PostsFor(i) == posts[i] + fw[i].posts

\* C4: when the first POST of a message is issued, an insert of that message
\* has been attempted and has settled.
C4_StoreBeforeForward ==
  \A i \in 1..MaxMsgs :
    /\ PostsFor(i) > 0 => loc[i].inserts >= 1
    /\ fw[i].posts > 0 => loc[i].inserts = loc[i].issued

\* a message whose insert failed has been POSTed all the same
C4_Witness ==
  \E i \in 1..MaxMsgs :
    /\ PostsFor(i) > 0 /\ loc[i].inserts >= 1
    /\ fw[i].posts > 0
    /\ \A r \in BagToSet(rows) : TransportId(r.message_id) # i

\* C10: a group message that another human answered, with a later timestamp,
\* during the group delay is not forwarded after the delay.
C10_HumanReplySuppresses ==
  \A i \in 1..MaxMsgs : loc[i].humanReplied => fw[i].posts = 0

\* C11: a group message that no human answered during the delay, and whose
\* first POST the endpoint accepted, is POSTed once: never a second POST for
\* the same message. (The endpoint has accepted every POST so far while
\* failBudget is untouched.)
C11_ForwardedOnce ==
  \A i \in 1..MaxMsgs :
    (/\ pc[i] # "idle" /\ ~msgs[i].fromMe /\ EndsWithGUs(msgs[i].from)
     /\ ~loc[i].humanReplied
     /\ failBudget = MaxPostFails) => PostsFor(i) <= 1

\* C13: a message authored by the bot (fromMe) is never POSTed to the endpoint
\* and no forwarder job is started for it; whatever is stored for it has
\* is_from_bot = TRUE and sender_role = "bot".
C13_BotMessageOnlyStored ==
  \A i \in 1..MaxMsgs :
    (pc[i] # "idle" /\ msgs[i].fromMe) =>
       /\ PostsFor(i) = 0
       /\ fw[i].st = "idle"
       /\ \A r \in BagToSet(rows) :
             TransportId(r.message_id) = i =>
                r.is_from_bot /\ r.sender_role = "bot"

\* the 'message_create' handler of a bot message has ended with its row stored
C13_Witness ==
  \E i \in 1..MaxMsgs :
    /\ pc[i] = "done" /\ msgs[i].fromMe
    /\ \E r \in BagToSet(rows) : TransportId(r.message_id) = i

\* C14: in handleIncomingMessage, once past the DM switch, (a) the insert is
\* attempted whatever lookups rejected, and the fields a rejected lookup would
\* have filled hold their placeholders: 'Unknown' and the chat-type name after
\* a rejected contact lookup, 'Group Chat' after a rejected chat lookup, null
\* after a rejected quoted-message lookup; (b) once the insert has settled,
\* stored or not, sendToN8nWebhook has been called, and has POSTed when an
\* endpoint is configured.
C14_IndependentFailureDomains ==
  \A i \in 1..MaxMsgs :
    LET l == loc[i]
        past == pc[i] \in {"m_forward", "done"} /\ l.senderName # ""
    IN /\ past => l.inserts >= 1 /\ l.inserts = l.issued
       /\ "contact" \in l.threw =>
             /\ l.senderName = "Unknown"
             /\ l.chatName = IF EndsWithGUs(msgs[i].from) THEN "Group Chat"
                                                         ELSE "Direct Message"
       /\ "chat" \in l.threw => l.chatName = "Group Chat"
       /\ "quoted" \in l.threw => l.replyTo = ""
       /\ past => /\ fw[i].st # "idle"
                  /\ cfg.urlSet => fw[i].posts >= 1

\* a handler has ended after its contact and quoted-message lookups rejected
\* and its insert was refused as a duplicate, and has POSTed the message
C14_Witness ==
  \E i \in 1..MaxMsgs :
    /\ pc[i] = "done"
    /\ {"contact", "quoted"} \subseteq loc[i].threw
    /\ loc[i].inserts >= 1 /\ ~loc[i].stored
    /\ CountOf(rows, IdOnly(msgs[i])) = 1
    /\ fw[i].posts >= 1

\* C12: for a direct message received with ENABLE_DM_RESPONSES off, no POST
\* is issued to the endpoint.
C12_DisabledDmNotPosted ==
  \A i \in 1..MaxMsgs :
    (/\ pc[i] # "idle" /\ ~msgs[i].fromMe
     /\ ~EndsWithGUs(msgs[i].from) /\ ~cfg.enableDm) => PostsFor(i) = 0

-----------------------------------------------------------------------------
(* Claims about the delivery forwarder *)

RetryDelays == <<1000, 2000, 4000, 8000>>

C5_Counts(f) ==
  /\ f.posts <= LastRetryAttempt + 1
  /\ f.st \in {"posting", "timer", "sent", "gaveup"} => f.posts = f.attempt + 1
  /\ Len(f.delays) <= Len(RetryDelays)
  /\ \A k \in 1..Len(f.delays) :
        /\ f.delays[k] = RetryDelays[k]
        /\ f.delays[k] <= BackoffCapMs
        /\ k > 1 => f.delays[k] > f.delays[k - 1]
  /\ f.st = "timer" => Len(f.delays) = f.attempt + 1
  /\ f.st \in {"posting", "sent", "gaveup"} => Len(f.delays) = f.attempt
  /\ f.st = "gaveup" => (f.posts = 5 /\ f.delays = RetryDelays)

\* C5: when every POST fails, sendToN8nWebhook POSTs exactly 5 times (attempts
\* 0..4) and stops; the delays between attempts are 1 s, 2 s, 4 s, 8 s; after a
\* POST that succeeds, or after the fifth failure, nothing further happens.
C5_BoundedRetry ==
  /\ [](\A j \in 1..MaxMsgs : C5_Counts(fw[j]))
  /\ [][\A j \in 1..MaxMsgs :
          fw[j].st \in {"sent", "gaveup"} => fw'[j] = fw[j]]_vars

\* five POSTs of one payload have failed and the forwarder has given up
C5_Witness ==
  \E j \in 1..MaxMsgs :
    fw[j].st = "gaveup" /\ fw[j].posts = 5 /\ fw[j].delays = RetryDelays

\* C6: a payload whose size after truncation exceeds 90,000 bytes is never
\* POSTed and never retried; with an endpoint configured, a payload of at most
\* 90,000 bytes is POSTed.
C6_SizeGuard ==
  \A j \in 1..MaxMsgs :
    LET f == fw[j]
        size == ByteLength([f EXCEPT !.text = Truncate(f.text, TextCap),
                                     !.rtext = Truncate(f.rtext, ReplyCap)])
    IN /\ \A p \in f.posted : p[3] <= MaxPayloadBytes
       /\ size > MaxPayloadBytes =>
            (f.posts = 0 /\ f.delays = <<>> /\ f.st \in {"idle", "toolarge", "nourl"})
       /\ (size <= MaxPayloadBytes /\ cfg.urlSet /\ f.st # "idle") => f.posts >= 1

\* a payload over the limit was dropped without a POST
C6_Witness ==
  \E j \in 1..MaxMsgs :
    fw[j].st = "toolarge" /\ fw[j].size0 > MaxPayloadBytes /\ fw[j].posts = 0

-----------------------------------------------------------------------------
(* The connection supervisor *)

\* An attempt of the reconnection chain of t ends in this step: its callback
\* was running (the timer fired, or it awaited initialize or getState) and now
\* is over, with or without a next timer.
AttemptEnds(t) ==
  /\ task[t].pc \in {"timer", "init", "state"}
  /\ task'[t] # task[t]
  /\ task'[t].pc \in {"timer", "done"}

\* The attempt that ends observed a present connection in state CONNECTED.
ObservedConnected(t) ==
  /\ task[t].pc = "state"
  /\ cl[task[t].aw].st = "ready"
  /\ client # NoClient

\* C7: after a 'disconnected' event the reconnection chain never gives up:
\* every attempt that ends without having observed a present connection in
\* state CONNECTED (a throw of startClient or of getState included) schedules
\* the attempt with attempt + 1, whatever the attempt number; the chain stops
\* only in an attempt that observed CONNECTED.
C7_ChainNeverGivesUp ==
  [][\A t \in Chains :
       AttemptEnds(t) =>
         IF ObservedConnected(t)
         THEN task'[t].pc = "done"
         ELSE /\ task'[t].pc = "timer"
              /\ task'[t].attempt = task[t].attempt + 1]_vars

\* A chain that has its next timer set after a failed attempt, startClient
\* having thrown on a createWhatsAppClient failure
C7_Witness ==
  \E t \in Chains :
    /\ task[t].pc = "timer"
    /\ task[t].attempt >= 2
    /\ stub.createFails > 0

\* A 'disconnected' handler has just started.
DisconnectedEvent == \E t \in Chains : task[t].pc = "destroy"

\* A reconnection timer is past the attempts the model follows.
BeyondAttempts ==
  \E t \in Chains : task[t].pc = "timer" /\ task[t].attempt > MaxAttempt

\* C8: after a 'disconnected' event, with a transport whose initialize
\* succeeds and reports CONNECTED from its n-th start, and timers and awaits
\* that fire, the supervisor reaches a state where `client` is set and its
\* state is CONNECTED (as long as the chain stays within the attempts followed).
C8_EventuallyConnected == DisconnectedEvent ~> (Connected \/ BeyondAttempts)

\* A chain that stopped after more than one attempt, with the connection up,
\* against a transport whose first start fails
C8_Witness ==
  \E t \in Chains :
    /\ task[t].pc = "done"
    /\ task[t].attempt >= 2
    /\ Connected
    /\ stub.n >= 2

-----------------------------------------------------------------------------
(* Claims about contacts.js *)

\* the step is refreshContactData call k being made
CallMade(k) == refresh[k].pc = "idle" /\ refresh'[k].pc # "idle"

\* C17: a refreshContactData call made less than DATA_REFRESH_INTERVAL after
\* the time recorded by the last completed refresh issues no GET and leaves
\* lastDataRefresh and both maps as they are.
C17_RefreshWithinIntervalNoOp ==
  [][\A k \in 1..MaxCalls :
       (/\ CallMade(k)
        /\ lastDataRefresh # 0
        /\ wall - lastDataRefresh < DataRefreshInterval) =>
          /\ refresh'[k].pc = "done" /\ refresh'[k].gets = {}
          /\ lastDataRefresh' = lastDataRefresh
          /\ clientContacts' = clientContacts
          /\ employeeContacts' = employeeContacts]_vars

\* a call made one millisecond before the interval was over has returned
\* without a GET, the maps being loaded
C17_Witness ==
  \E k \in 1..MaxCalls :
    /\ refresh[k].pc = "done" /\ refresh[k].gets = {}
    /\ refresh[k].now - lastDataRefresh = DataRefreshInterval - 1
    /\ DOMAIN clientContacts # {}

\* the phone numbers the cache holds
CachedPhones == {k.user : k \in DOMAIN clientContacts \cup DOMAIN employeeContacts}

\* C18: for every cached contact with normalized phone p, both keys p and
\* p@c.us are in the map with the same row, and getSenderRole(p) and
\* getSenderRole(p + '@c.us') give the same role and the same row.
C18_DualKey ==
  \A p \in CachedPhones :
    /\ \A m \in {clientContacts, employeeContacts} :
          (BareId(p) \in DOMAIN m \/ UserWid(p) \in DOMAIN m) =>
             /\ BareId(p) \in DOMAIN m /\ UserWid(p) \in DOMAIN m
             /\ m[BareId(p)] = m[UserWid(p)]
    /\ GetSenderRole(BareId(p)) = GetSenderRole(UserWid(p))
    /\ GetSenderRole(BareId(p)).role # "unknown"
    /\ FormatPhoneNumber(GetSenderRole(UserWid(p)).data.phone) = p

\* a refresh has completed and a number is cached as a client and as an
\* employee, under a row whose sheet wrote it differently
C18_Witness ==
  /\ lastDataRefresh # 0
  /\ \E p \in CachedPhones :
        /\ BareId(p) \in DOMAIN clientContacts
        /\ BareId(p) \in DOMAIN employeeContacts
        /\ GetSenderRole(UserWid(p)).role = "client"
        /\ GetSenderRole(UserWid(p)).data.phone # p

\* C19: a refresh in which the GET of one side failed has still issued the
\* GET of the other side.
C19_SidesIndependent ==
  \A k \in 1..MaxCalls :
    /\ refresh[k].threw = "clients" => "employees" \in refresh[k].gets
    /\ refresh[k].threw = "employees" => "clients" \in refresh[k].gets

\* C20: formatPhoneNumber(formatPhoneNumber(x)) = formatPhoneNumber(x).
C20_FormatIdempotent == fmt.n = 2 => fmt.twice = fmt.once

\* an 8-digit number written with separators: they were stripped and the
\* country code was put in front, which gives 10 digits, the length the
\* second branch looks at, and the second application was made
C20_Witness ==
  /\ fmt.n = 2
  /\ Len(fmt.x) = 10
  /\ Len(SelectSeq(fmt.x, IsDigit)) = 8
  /\ Len(fmt.once) = 10
  /\ fmt.x[1] = "0"

\* C21: whatever separators the input carries, an 8-digit local number d, its
\* leading-zero form "0" d and its country-code form "65" d are all mapped by
\* formatPhoneNumber to "65" d.
C21_SameCanonicalValue ==
  fmt.n >= 1 =>
    LET c == SelectSeq(fmt.x, IsDigit)
    IN /\ Len(c) = 8 => fmt.once = <<"6", "5">> \o c
       /\ (Len(c) = 9 /\ c[1] = "0") => fmt.once = <<"6", "5">> \o Tail(c)
       /\ (Len(c) = 10 /\ SubSeq(c, 1, 2) = <<"6", "5">>) => fmt.once = c

-----------------------------------------------------------------------------
(* Claims about the reply *)

\* C24: when the downstream answered with a non-empty `response`, the reply
\* is sent once quoting the original message and, if that send failed, once
\* more without the quote, so that at most two sends are attempted and one
\* reply reaches the chat unless the unquoted send failed too; when the answer
\* holds no `response`, nothing is sent.
C24_ReplyOnceWithFallback ==
  reply.pc = "done" =>
    /\ reply.response = "" => reply.attempts = <<>> /\ reply.sent = <<>>
    /\ reply.response # "" =>
         /\ reply.attempts \in {<<"quoted">>, <<"quoted", "plain">>}
         /\ Len(reply.sent) <= 1
         /\ reply.attempts = <<"quoted">> =>
              Len(reply.sent) = 1 /\ reply.sent[1].quoted
         /\ (reply.attempts = <<"quoted", "plain">> /\ ~reply.caught) =>
              Len(reply.sent) = 1 /\ ~reply.sent[1].quoted

-----------------------------------------------------------------------------
(* Claims about storage.js *)

\* C22: a sessionExists or an extract call whose backend query fails, by an
\* error value or by throwing, does not raise: sessionExists returns false
\* and extract returns null.
C22_ReadsNeverRaise ==
  (sess.op \in {"sessionExists", "extract"} /\ sess.outcome # "ok") =>
     /\ ~sess.raised
     /\ sess.ret = IF sess.op = "sessionExists" THEN "false" ELSE Null

\* what the saves and deletes the backend ran so far leave under the
\* instance's key: the blob of the last save, Null after a delete or at the start
LastSaved ==
  IF sess.hist = <<>> \/ sess.hist[Len(sess.hist)] = "delete" THEN Null
  ELSE sess.hist[Len(sess.hist)]

\* C23: after successful saves b1..bn the table holds exactly one record for
\* the instance's key, extract() returns bn and sessionExists for that key is
\* true; after a successful delete() there is no such record, extract()
\* returns null and sessionExists is false.
C23_LastWriteWins ==
  /\ Cardinality(SelectByKey(sessions, SessionId)) = IF LastSaved = Null THEN 0 ELSE 1
  /\ (sess.op = "extract" /\ sess.outcome = "ok") =>
        ~sess.raised /\ sess.ret = LastSaved
  /\ (sess.op = "sessionExists" /\ sess.arg = SessionId /\ sess.outcome = "ok") =>
        sess.ret = IF LastSaved = Null THEN "false" ELSE "true"

\* b1 was saved, then b2, and an extract that followed returned b2, the table
\* holding the record of another instance as well
C23_Witness ==
  /\ sess.hist = <<"b1", "b2">>
  /\ sess.op = "extract" /\ sess.outcome = "ok" /\ sess.ret = "b2"
  /\ SelectByKey(sessions, OtherKey) # {}

\* a timer that calls startClient fires for task t
TimerFires(t) == task[t].pc = "timer" /\ task'[t].pc # "timer"

\* the step constructs client c
Constructs(c) == cl[c].st = "absent" /\ cl'[c].st # "absent"

\* C15: a startClient call that finds `client` set constructs no client and
\* leaves `client`, the clients and their handlers as they are; a step
\* constructs at most one client and stores it in `client` at once, and a
\* call made from a timer or from the watchdog's first branch constructs one
\* only when it found `client` null: two calls never construct for one
\* absence of the handle.
C15_StartClientIdempotent ==
  [][/\ \A t \in TaskIds :
          (TimerFires(t) /\ client # NoClient) =>
             /\ client' = client
             /\ cl' = cl
             /\ stub' = stub
     /\ \A c \in ClientIds :
          Constructs(c) =>
             /\ client' = c
             /\ \A d \in ClientIds \ {c} : ~Constructs(d)
     /\ \A t \in TaskIds :
          (task[t].pc \in {"timer", "idle"} /\ task'[t].pc = "init") =>
             client = NoClient]_vars

\* a reconnection timer called startClient while the client another caller
\* constructed was still initializing, and went on to getState of that client
C15_Witness ==
  \E t \in Chains, u \in TaskIds \ Chains :
    /\ task[t].pc = "state"
    /\ task[u].pc = "init"
    /\ task[u].aw = task[t].aw
    /\ client = task[t].aw

\* C16: a watchdog tick that finds no client calls startClient; a tick whose
\* getState settles for a client that is not CONNECTED, and that `client`
\* still refers to, destroys that client, and once the destroy has settled
\* the handle is cleared and startClient is called; a tick that finds the
\* client CONNECTED changes neither the handle nor the clients.
C16_WatchdogTick ==
  [][\A t \in Watchdogs :
       /\ (task[t].pc = "idle" /\ task'[t].pc # "idle" /\ client = NoClient) =>
             task'[t].pc \in {"init", "done"}
       /\ (task[t].pc = "state" /\ task'[t].pc # "state") =>
             LET c == task[t].aw IN
               /\ cl[c].st = "ready" =>
                     /\ client' = client
                     /\ cl'[c].st # "dead" /\ \A d \in ClientIds : ~Constructs(d)
                     /\ task'[t].pc = "done"
               /\ (cl[c].st = "init" /\ client = c) =>
                     /\ task'[t].pc = "destroy"
                     /\ cl'[c].st = "dead"
       /\ (task[t].pc = "destroy" /\ task'[t].pc # "destroy") =>
             /\ task'[t].pc \in {"init", "done"}
             /\ client' = NoClient \/ client' = task'[t].aw]_vars

\* C9: whenever the 'auth_failure' handler finishes without terminating the
\* process, the session backend holds no record for the session key.
C9_SessionAbsentAfterAuthFailure ==
  [][\A t \in AuthHandlers :
       (task[t].pc = "delete" /\ task'[t].pc = "timer" /\ ~exited') => ~session']_vars

\* the initialize() awaited by task t settles in this step, thrown
InitializeThrows(t) ==
  /\ task[t].pc = "init"
  /\ task'[t].pc # "init"
  /\ ~(cl[task[t].aw].st = "init" /\ cl[task[t].aw].ok)

\* C25: when the initialize() awaited inside startClient throws, `client` is
\* null afterwards and startClient sets no timer and constructs no client: a
\* caller that does nothing after startClient (the boot timer, the watchdog,
\* the restart timers) is over, and only the reconnection callback, in its own
\* code, schedules its next attempt.
C25_InitializeThrowResets ==
  [][\A t \in TaskIds :
       InitializeThrows(t) =>
         /\ client' = NoClient
         /\ \A c \in ClientIds : ~Constructs(c)
         /\ \A u \in TaskIds \ {t} : task'[u] = task[u]
         /\ IF t \in Chains
              THEN task'[t] = AttemptReconnection(task[t].attempt + 1)
              ELSE task'[t].pc = "done"]_vars

\* the first start of the transport failed in the startClient of the boot
\* timer: the handle is null, the callback is over and nothing else has run
C25_Witness ==
  /\ task[Boot].pc = "done"
  /\ client = NoClient
  /\ stub.n >= 2 /\ stub.starts = 1
  /\ \A t \in TaskIds \ {Boot} : task[t].pc = "idle"

\* C26: with timers that fire, awaits that settle and a watchdog interval
\* that ticks, a null `client` does not stay null for ever while the process
\* runs: startClient is called again and constructs a client.
C26_AbsentRestarted == (client = NoClient /\ ~exited) ~> (client # NoClient \/ exited)

\* the startClient of the boot timer failed and left `client` null, no other
\* callback was pending, and a tick of the watchdog has started a client
C26_Witness ==
  /\ task[Boot].pc = "done"
  /\ stub.n >= 2
  /\ task[FreeWatchdog].pc = "init" /\ task[FreeWatchdog].aw = client
  /\ \A t \in TaskIds \ {Boot, FreeWatchdog} : task[t].pc = "idle"

\* the client.destroy() awaited by the 'disconnected' handler t settles
ChainDestroySettles(t) == task[t].pc = "destroy" /\ task'[t].pc # "destroy"

\* C27: the 'disconnected' handler destroys the client `client` refers to
\* and, destroy() resolved or thrown, has `client` null in the step that
\* schedules the first reconnection attempt; no attempt is scheduled while the
\* destroy is awaited.
C27_DestroyedAndClearedFirst ==
  [][\A t \in Chains :
       /\ (task[t].pc = "idle" /\ task'[t].pc # "idle") =>
             /\ task'[t].pc = "destroy"
             /\ task'[t].aw = client
             /\ cl'[client].st = "dead"
       /\ ChainDestroySettles(t) =>
             /\ client' = NoClient
             /\ cl'[task[t].aw].st \in {"dead", "absent"}
             /\ task'[t] = AttemptReconnection(1)]_vars

\* the handler of a 'disconnected' event has scheduled its first attempt, the
\* handle being null and no client left
C27_Witness ==
  \E t \in Chains :
    /\ task[t].pc = "timer" /\ task[t].attempt = 1
    /\ client = NoClient
    /\ \A c \in ClientIds : cl[c].st = "absent"

\* C28: the timer of reconnection attempt k is set to min(2^k, 60) seconds:
\* never more than 60 s, and never less than the timer of attempt k - 1.
C28_BackoffCapped ==
  [][\A t \in Chains :
       (task'[t].pc = "timer" /\ task'[t] # task[t]) =>
          LET k == task'[t].attempt IN
          /\ task'[t].delay = 1000 * Min(2 ^ k, 60)
          /\ task'[t].delay <= 60 * 1000
          /\ IF k = 1 THEN task[t].pc = "destroy"
             ELSE /\ task[t].attempt = k - 1
                  /\ task'[t].delay >= task[t].delay]_vars

\* the timer of attempt 7 is set to the cap, as the timer of attempt 6 was
C28_Witness ==
  /\ task[FirstChain].pc = "timer"
  /\ task[FirstChain].attempt = 7
  /\ task[FirstChain].delay = MaxDelayMs
  /\ ReconnectDelay(6) = MaxDelayMs /\ ReconnectDelay(5) < MaxDelayMs

\* the startClient() call of the restart timer of handler t is over in this step
AuthRestartOver(t) ==
  /\ t \in AuthHandlers
  /\ task[t].pc \in {"timer", "init"}
  /\ task'[t].pc = "done"

\* C29: when the session delete awaited by the 'auth_failure' handler
\* resolves, `client` is null and the handler sets one timer of 10 s and
\* nothing else; the timer calls startClient() once, and when that call is
\* over, started or failed, the handler sets no other timer and constructs no
\* other client.
C29_OneDelayedRestart ==
  [][\A t \in AuthHandlers :
       /\ (task[t].pc = "delete" /\ task'[t].pc \notin {"delete", "catch"}) =>
             /\ client' = NoClient
             /\ task'[t] = Timer(AuthRestartDelayMs)
             /\ task'[t].delay = 10 * 1000
             /\ \A u \in TaskIds \ {t} : task'[u] = task[u]
             /\ \A c \in ClientIds : ~Constructs(c)
       /\ (task[t].pc = "timer" /\ task'[t] # task[t]) =>
             /\ task'[t].pc \in {"init", "done"}
             /\ \A u \in TaskIds \ {t} : task'[u] = task[u]
             /\ Cardinality({c \in ClientIds : Constructs(c)}) <= 1
       /\ (task[t].pc = "init" /\ task'[t] # task[t]) =>
             /\ task'[t].pc = "done"
             /\ \A u \in TaskIds \ {t} : task'[u] = task[u]
             /\ \A c \in ClientIds : ~Constructs(c)
       /\ (task[t].pc = "done") => task'[t] = task[t]]_vars

\* the restart of an 'auth_failure' handler has failed, nothing else is
\* pending and the process is alive with no client
C29_Witness ==
  /\ ~exited
  /\ client = NoClient
  /\ \E t \in AuthHandlers :
       /\ task[t].pc = "done" /\ task[t].delay = AuthRestartDelayMs
       /\ \A u \in TaskIds \ {t, Boot} : task[u].pc = "idle"
  /\ task[Boot].pc = "done"

\* C30: when the session delete awaited by the 'auth_failure' handler throws,
\* the process exits in the catch block: `client`, the clients and every other
\* callback are as before, and no timer is set.
C30_EraseThrowExits ==
  [][\A t \in AuthHandlers :
       (task[t].pc = "delete" /\ task'[t].pc = "catch") =>
          /\ exited'
          /\ client' = client /\ cl' = cl
          /\ task' = [task EXCEPT ![t].pc = "catch"]
          /\ task'[t].delay = 0
          /\ \A u \in TaskIds : task'[u].pc = "timer" => task[u].pc = "timer"]_vars

\* an 'auth_failure' handler is in its catch block and the process has exited
C30_Witness ==
  \E t \in AuthHandlers : task[t].pc = "catch" /\ exited /\ client # NoClient

\* a memory check runs in this step
MemoryChecked ==
  \/ memory' # memory
  \/ \E t \in MemResets : task[t].pc = "idle" /\ task'[t].pc # "idle"

\* C31: a memory check that reads more than 450 MB with `client` set destroys
\* that client, and when the destroy has resolved `client` is null and one
\* timer of 5 s for startClient is set; a check that reads at most 450 MB
\* leaves `client`, the clients and every callback as they were.
C31_MemoryMarks ==
  [][/\ MemoryChecked =>
          IF memory'.rss > 450 * 1024 * 1024 /\ client # NoClient
            THEN \E t \in MemResets :
                   /\ task[t].pc = "idle"
                   /\ task'[t].pc = "destroy" /\ task'[t].aw = client
                   /\ cl'[client].st = "dead"
            ELSE memory'.rss <= 450 * 1024 * 1024 =>
                   client' = client /\ cl' = cl /\ task' = task
     /\ \A t \in MemResets :
          (task[t].pc = "destroy" /\ task'[t].pc = "timer") =>
             client' = NoClient /\ task'[t] = Timer(5000)]_vars

\* what the forwarder is to send for an original text of o.n characters
Forwarded(o, cap) ==
  IF o.n <= cap THEN o ELSE [n |-> cap, m |-> Len("... [truncated]")]

\* C32: the first POST of a payload carries the text unchanged when it has at
\* most 1000 characters and its first 1000 characters followed by the marker
\* otherwise, and likewise the reply text with 500; every retry leaves the
\* two texts as they are and POSTs the same content again.
C32_TruncationStable ==
  [][\A j \in 1..MaxMsgs :
       /\ (fw[j].st = "idle" /\ fw'[j].st = "posting") =>
             /\ fw[j].text.m = 0 /\ fw[j].rtext.m = 0
             /\ fw'[j].text = Forwarded(fw[j].text, 1000)
             /\ fw'[j].rtext = Forwarded(fw[j].rtext, 500)
             /\ \A p \in fw'[j].posted : p[1] = fw'[j].text /\ p[2] = fw'[j].rtext
       /\ (fw[j].st = "timer" /\ fw'[j] # fw[j]) =>
             /\ fw'[j].st = "posting"
             /\ fw'[j].text = fw[j].text /\ fw'[j].rtext = fw[j].rtext
             /\ fw'[j].posted = fw[j].posted
             /\ Cardinality(fw'[j].posted) = 1]_vars

\* a payload with both texts over their caps was POSTed, cut, a second time
C32_Witness ==
  \E j \in 1..MaxMsgs :
    /\ fw[j].st = "posting" /\ fw[j].posts = 2
    /\ fw[j].text = [n |-> 1000, m |-> 15]
    /\ fw[j].rtext = [n |-> 500, m |-> 15]

\* the rows of a fetched sheet that have a phone, and their normalized phones
WithPhone(list) == {i \in 1..Len(list) : list[i].phone # <<>>}
PhonesOf(list) == {FormatPhoneNumber(list[i].phone) : i \in WithPhone(list)}

\* the map m holds the fetched sheet and nothing else
HoldsExactly(m, list) ==
  /\ DOMAIN m = {BareId(p) : p \in PhonesOf(list)} \cup {UserWid(p) : p \in PhonesOf(list)}
  /\ \A key \in DOMAIN m :
        \E i \in WithPhone(list) :
           FormatPhoneNumber(list[i].phone) = key.user /\ m[key] = list[i]

\* the map m after a GET that did not fail: left alone by a body without the
\* array, and otherwise holding exactly a fetched sheet
ReplacedBy(old, m) ==
  \E resp \in Responses :
     /\ ~resp.thrown
     /\ IF resp.isArray THEN HoldsExactly(m, resp.list) ELSE m = old

Strangers == {<<"6", "5", "0", "0", "0", "0", "0", "0", "0", "0">>}
Identities ==
  LET ps == {FormatPhoneNumber(r.phone) : r \in {Ann, Bob, Cid, Eve}} \cup Strangers
  IN {BareId(p) : p \in ps} \cup {UserWid(p) : p \in ps}

Present(id, m) == BareId(id.user) \in DOMAIN m \/ UserWid(id.user) \in DOMAIN m

\* C34: getSenderRole answers 'client' with the row of the client map for an
\* identity the client map holds, whether or not the employee map holds it
\* too, 'employee' with the row of the employee map for one only the employee
\* map holds, and 'unknown' with no data for one neither map holds.
C34_ClientFirst ==
  \A id \in Identities :
    LET r == GetSenderRole(id) IN
      /\ Present(id, clientContacts) =>
            r.role = "client" /\ r.data = clientContacts[UserWid(id.user)]
      /\ (Present(id, employeeContacts) /\ ~Present(id, clientContacts)) =>
            r.role = "employee" /\ r.data = employeeContacts[UserWid(id.user)]
      /\ (~Present(id, employeeContacts) /\ ~Present(id, clientContacts)) =>
            r.role = "unknown" /\ r.data = <<>>

\* both maps are loaded, from different sheets: one number is in both, with
\* different rows, one only in the employee map and one in neither
C34_Witness ==
  /\ \E id \in Identities :
        /\ Present(id, clientContacts) /\ Present(id, employeeContacts)
        /\ clientContacts[id] # employeeContacts[id]
        /\ GetSenderRole(id).data = clientContacts[id]
  /\ \E id \in Identities :
        ~Present(id, clientContacts) /\ GetSenderRole(id).role = "employee"
  /\ \E id \in Identities : GetSenderRole(id).role = "unknown"

\* the transport clients that were created and not destroyed
Live == {c \in ClientIds : cl[c].st \in {"init", "ready"}}

\* the callback t, which awaited something on client c or on the session
\* store, resumes in this step
Resumes(t) ==
  /\ task[t].pc \in {"init", "state", "destroy", "delete"}
  /\ task'[t] # task[t]

\* C35: at most one client that was not destroyed exists; `client` is cleared
\* or set to another client only when the client it referred to has been
\* destroyed; and a callback that resumes after an await does not clear a
\* `client` that by now refers to another client than the one it awaited.
C35_SingleConnection ==
  /\ [](Cardinality(Live) <= 1)
  /\ [][/\ (client # NoClient /\ client' # client) => cl[client].st = "dead"
        /\ \A t \in TaskIds :
             (/\ Resumes(t)
              /\ task[t].aw # NoClient
              /\ client \notin {NoClient, task[t].aw}) => client' = client]_vars

\* C36: a 'disconnected' event of a client that `client` no longer refers to
\* leaves the client `client` refers to as it is, when the handler starts and
\* when it resumes after its await.
C36_StaleEventHarmless ==
  [][\A t \in Chains :
       /\ (task[t].pc = "idle" /\ task'[t].from # NoClient) =>
             /\ client' = client
             /\ cl'[client] = cl[client]
       /\ (task[t].from # NoClient /\ task'[t] # task[t]) =>
             (client' = client \/ client = NoClient)]_vars

\* the 'disconnected' handlers and reconnection chains that are under way
Pending == {t \in Chains : task[t].pc \notin {"idle", "done"}}

\* C37: at most one 'disconnected' handler with its chain of reconnection
\* timers is under way at any time.
C37_OneChain == Cardinality(Pending) <= 1

\* C38: a POST /send-message with chatId and message served while `client`
\* is set is not answered 503 'WhatsApp client not ready', and a GET /health
\* served while `client` is set does not report 'NO_CLIENT'.
C38_RoutesSeeHandle ==
  [][/\ (/\ http'.path = "/send-message"
         /\ http' # http
         /\ http'.handle # NoClient
         /\ http'.body # "Missing chatId or message") => http'.status # 503
     /\ (http'.path = "/health" /\ http' # http /\ http'.handle # NoClient) =>
           http'.body \notin {"NO_CLIENT", "NOT_INITIALIZED"}]_vars

\* the rows stored for the transport message that reply_to value id names
StoredFor(id) == {q \in BagToSet(rows) : TransportId(q.message_id) = TransportId(id)}

\* C39: a stored row whose reply_to names a message that is stored too
\* carries in reply_to the message_id of that message's row, so the query
\* reply_to = message_id finds it.
C39_ReplyToMatchesMessageId ==
  \A r \in BagToSet(rows) :
    r.reply_to # NoReplyTo =>
      \A q \in StoredFor(r.reply_to) : r.reply_to = q.message_id

====
